---- MODULE Spec2Model ----
(***************************************************************************)
(* Verification model of the Omnyxnet data-plane core (rust/src):          *)
(*   - dcdn/storage.rs   ChunkStore   (ring buffer + DashMap index)         *)
(*   - dcdn/fec.rs       FecEngine    (Reed-Solomon packet groups)          *)
(*   - dcdn/verifier.rs  SignatureVerifier                                  *)
(*   - dcdn/p2p.rs       P2PEngine    (tit-for-tat unchoke set)             *)
(*   - ces.rs            CesPipeline  (compress / encrypt / shard)          *)
(* Each component has its own specification (SpecStore, SpecStoreSeq,       *)
(* SpecFec, SpecVerifier, SpecP2P, SpecCes); the variables of the other     *)
(* components stay at their constructed values.                             *)
(***************************************************************************)
EXTENDS Integers, Sequences, FiniteSets, TLC

VARIABLES
    \* ---- ChunkStore (dcdn/storage.rs) ----
    capacity,          \* ChunkStore.capacity
    slots,             \* ChunkStore.slots: slot index -> Option<Arc<ChunkData>>
    index,             \* ChunkStore.index: DashMap<ChunkId, usize> (partial function)
    write_head,        \* ChunkStore.write_head
    evictions_total,   \* ChunkStore.evictions_total
    hits_total,        \* ChunkStore.hits_total
    misses_total,      \* ChunkStore.misses_total
    slotLock,          \* writer of each slot's parking_lot::RwLock (0 = unlocked)
    shardGuard,        \* DashMap shard read guards (Ref) held by each thread
    spc,               \* per thread: position inside the running ChunkStore call
    slocal,            \* per thread: the call's locals
    sres,              \* per thread: the last completed call and what it returned
    insLog,            \* ids of the completed inserts, in order (SpecStoreSeq only)
    chunk_ttl,         \* ChunkStore.chunk_ttl
    chunkArgs,         \* per insert call: data length, timestamp and instant of the call
    expiredRes,        \* the last list_expired or evict_expired and what it returned
    \* ---- FecEngine (dcdn/fec.rs) ----
    fecConfig,         \* FecEngine.config: block_size, parity_count
    sentData,          \* the k data packets handed to encode (payload per index)
    sentParity,        \* what encode returned: the parity packets
    fecPhase,          \* "new" before encode, "open" once the packets are in flight
    active_groups,     \* FecEngine.active_groups: is the group there, and its FecGroup
    decodeRes,         \* outcome of the last decode of the group as it stands
    retired,           \* the group was decoded and then removed with remove_group
    \* ---- SignatureVerifier (dcdn/verifier.rs) ----
    trusted_keys,          \* SignatureVerifier.trusted_keys: DashMap<PeerId, PublicKey>
    revoked_keys,          \* SignatureVerifier.revoked_keys: HashSet<PeerId>
    revLock,               \* writer of the RwLock around revoked_keys (0 = unlocked)
    keyGuard,              \* DashMap Ref into trusted_keys held by each thread (peer, 0 = none)
    verifications_total,   \* VerificationMetrics.verifications_total
    verifications_success, \* VerificationMetrics.verifications_success
    verifications_failed,  \* VerificationMetrics.verifications_failed
    vpc,                   \* per thread: position inside the running verifier call
    vlocal,                \* per thread: the call's arguments and locals
    vres,                  \* the last completed verify and what it returned
    revokeDone,            \* peers for which a revoke_key call has returned
    testBuild,             \* cfg!(test) of the build
    \* ---- P2PEngine (dcdn/p2p.rs) ----
    p2pConfig,         \* P2PEngine.config: regular_unchoke_count, optimistic_unchoke_count
    peer_stats,        \* P2PEngine.peer_stats: DashMap<PeerId, PeerStats>
    unchoked_peers,    \* P2PEngine.unchoked_peers: the published Vec<PeerId>
    unchokeReaders,    \* threads holding a read guard of the RwLock around unchoked_peers
    ppc,               \* per thread: position inside the running P2PEngine call
    plocal,            \* per thread: the call's arguments and locals
    reqRes,            \* the last completed handle_chunk_request and what it returned
    readRes,           \* the last completed get_unchoked_peers / get_bandwidth_allocation
    \* ---- CesPipeline (ces.rs) ----
    cesConfig,         \* CesPipeline.config: shard_count, parity_count, compression_algorithm
    encryption_key,    \* CesPipeline.encryption_key
    cesInput,          \* the data handed to process
    cesShards,         \* what process returned
    cesPresented,      \* the Vec<Option<Vec<u8>>> the caller hands to reconstruct
    cesOutput,         \* what reconstruct returned
    \* ---- DcdnConfig (dcdn/config.rs) ----
    dcdnConfig,        \* the DcdnConfig handed to validate
    validateRes,       \* what validate returned
    \* ---- Cache (cache.rs) ----
    cacheConfig,       \* Cache: max_entries of the LruCache and max_cache_size
    shard_cache,       \* Cache.shard_cache: the LruCache, least recently used first
    cacheStats,        \* Cache.stats: the shard counters of CacheStats
    \* ---- Metering (compute/metering.rs) ----
    limits,            \* Metering.limits: the ResourceLimits
    memory_bytes,      \* Metering.memory_bytes
    cpu_cycles,        \* Metering.cpu_cycles
    elapsed_ms,        \* start_time.elapsed() in milliseconds
    interrupted,       \* Metering.interrupted: the interrupt flag
    mres,              \* the last completed metered operation and what it returned
    mfree,             \* per thread: position inside free_memory and the amount it will subtract
    \* ---- ComputeEngine (compute/mod.rs) ----
    sandboxLock,       \* thread holding the write guard of ComputeEngine.sandbox (0 = none)
    epc,               \* per thread: position inside the running ComputeEngine call
    ecall,             \* per thread: the running call and its arguments
    taskStatus,        \* TaskStatus of each task of the job
    \* ---- MerkleTree (compute/verification.rs) ----
    merkleChunks,      \* the chunks handed to MerkleTree::build
    merkleTree,        \* the MerkleTree built from them: root, nodes, leaf_count, level_sizes
    proofRes,          \* the last get_proof and what verify_proof said of its proof
    \* ---- WasmSandbox (compute/sandbox.rs) ----
    module_cache,      \* WasmSandbox.module_cache: the hashes of the cached modules
    simulation_mode,   \* SandboxConfig.simulation_mode
    sbData,            \* the data handed to the split function
    sbSplit,           \* what execute(.., "split") returned for it
    sbMerged,          \* what execute(.., "merge") returned for the split output
    sbLast,            \* the last execute / load_module: its module and its outcome
    \* ---- ComputeExecutor (compute/executor.rs) ----
    exJob,             \* JobManifest: min_chunk_size, max_chunk_size
    exData,            \* the data handed to split_data
    exSplit,           \* what split_data returned: chunk size, chunks, ChunkInfos
    exLog,             \* the codec's input, then what each serialize / deserialize returned
    \* ---- ResultVerifier (compute/verification.rs) ----
    rvMode,            \* ResultVerifier.mode
    rvRes              \* the last verify: its arguments and the VerificationResult

p2pVars == <<p2pConfig, peer_stats, unchoked_peers, unchokeReaders, ppc, plocal, reqRes,
             readRes>>

cesVars == <<cesConfig, encryption_key, cesInput, cesShards, cesPresented, cesOutput>>

verVars == <<trusted_keys, revoked_keys, revLock, keyGuard, verifications_total,
             verifications_success, verifications_failed, vpc, vlocal, vres,
             revokeDone, testBuild>>

expiryVars == <<chunk_ttl, chunkArgs, expiredRes>>

storeVars == <<capacity, slots, index, write_head, evictions_total, hits_total,
               misses_total, slotLock, shardGuard, spc, slocal, sres, insLog, expiryVars>>

fecVars == <<fecConfig, sentData, sentParity, fecPhase, active_groups, decodeRes, retired>>

meterVars == <<limits, memory_bytes, cpu_cycles, elapsed_ms, interrupted, mres, mfree>>

configVars == <<dcdnConfig, validateRes>>

cacheVars == <<cacheConfig, shard_cache, cacheStats>>

dcdnVars == <<storeVars, fecVars, verVars, p2pVars, cesVars, configVars, cacheVars>>

\* The compute module's components.
engineVars == <<sandboxLock, epc, ecall, taskStatus>>

merkleVars == <<merkleChunks, merkleTree, proofRes>>

sandboxVars == <<module_cache, simulation_mode, sbData, sbSplit, sbMerged, sbLast>>

executorVars == <<exJob, exData, exSplit, exLog>>

resultVerifierVars == <<rvMode, rvRes>>

\* The components of the compute module's data path.
dataVars == <<sandboxVars, executorVars, resultVerifierVars>>

computeVars == <<meterVars, engineVars, merkleVars, dataVars>>

vars == <<dcdnVars, computeVars>>

\* What the calls of one component leave alone: the other components.
expiryOthers == <<fecVars, verVars, p2pVars, cesVars, configVars, cacheVars, computeVars>>
storeOthers == <<expiryVars, expiryOthers>>
fecOthers   == <<storeVars, verVars, p2pVars, cesVars, configVars, cacheVars, computeVars>>
verOthers   == <<storeVars, fecVars, p2pVars, cesVars, configVars, cacheVars, computeVars>>
p2pOthers   == <<storeVars, fecVars, verVars, cesVars, configVars, cacheVars, computeVars>>
cesOthers   == <<storeVars, fecVars, verVars, p2pVars, configVars, cacheVars, computeVars>>
configOthers == <<storeVars, fecVars, verVars, p2pVars, cesVars, cacheVars, computeVars>>
cacheOthers == <<storeVars, fecVars, verVars, p2pVars, cesVars, configVars, computeVars>>
freeOthers == <<dcdnVars, engineVars, merkleVars, dataVars>>
meterOthers == <<mfree, freeOthers>>
engineOthers == <<dcdnVars, meterVars, merkleVars, dataVars>>
merkleOthers == <<dcdnVars, meterVars, engineVars, dataVars>>
controlVars == <<dcdnVars, meterVars, engineVars, merkleVars>>
sandboxOthers == <<controlVars, executorVars, resultVerifierVars>>
executorOthers == <<controlVars, sandboxVars, resultVerifierVars>>
resultVerifierOthers == <<controlVars, sandboxVars, executorVars>>

(***************************************************************************)
(* Bounds of the model                                                     *)
(***************************************************************************)
MaxCapacity == 2      \* ring buffers of 1..MaxCapacity slots
MaxChunkId  == 2      \* chunk ids 0..MaxChunkId
MaxInserts  == 3      \* fetch_add on write_head happens at most this often
MaxTtlInserts == 2    \* inserts made by the caller that scans for expired chunks
MaxTtl      == 1      \* chunk_ttl is in 1..MaxTtl
MaxTime     == 2      \* chunks are built and inserted at instants 0..MaxTime
MaxGets     == 2      \* get is called at most this often
NumThreads  == 2      \* concurrent callers of one ChunkStore
NumShards   == 2      \* shards of the DashMap index

MaxK        == 3      \* FEC block_size ranges over 2..MaxK
MaxM        == 2      \* FEC parity_count ranges over 1..MaxM (and stays below block_size)
MaxPktLen   == 2      \* packet payloads of 1..MaxPktLen bytes
MaxParityRx == 2      \* at most this many parity packets are delivered to a group

MaxPeerId   == 2      \* peer ids 1..MaxPeerId
MaxVerifies == 2      \* verify is called at most this often

MaxSwarm      == 2    \* peers 1..MaxSwarm can join the swarm of the P2P engine
MaxBytes      == 1    \* uploaded_bytes and downloaded_bytes stay within 0..MaxBytes
MaxRegular    == 1    \* regular_unchoke_count ranges over 0..MaxRegular
MaxOptimistic == 1    \* optimistic_unchoke_count ranges over 0..MaxOptimistic
MaxRanked     == 3    \* peers 1..MaxRanked are ranked when the unchoke set is calculated alone

MaxUploadMbps == 50   \* P2PConfig::default().max_upload_mbps

MaxShards   == 3      \* CES shard_count ranges over 1..MaxShards
MaxParity   == 2      \* CES parity_count ranges over 0..MaxParity
MaxNonce    == 2      \* the random nonce of encrypt is one of MaxNonce values
MaxLost     == 3      \* at most this many shards are marked missing before reconstruct

MaxSetting  == 1      \* numeric settings of a DcdnConfig range over 0..MaxSetting
MaxFecSetting == 2    \* default_block_size and default_parity_count range over 0..MaxFecSetting
MinIdleTimeoutMs == 1000  \* the floor of idle_timeout_ms in validate

MaxFileHash     == 1   \* file hashes 0..MaxFileHash
MaxShardIndex   == 1   \* shard indexes 0..MaxShardIndex
MaxShardLen     == 3   \* cached shards of 0..MaxShardLen bytes
MaxCacheEntries == 2   \* LruCache capacities 1..MaxCacheEntries
MaxCacheSize    == 10  \* max_cache_size ranges over 0..MaxCacheSize
MaxCacheBytes   == 12  \* put_shard is called while cache_size_bytes stays within 0..MaxCacheBytes
MaxCacheGets    == 1   \* get_shard is called at most this often
EvictExtraDivisor == 10  \* evict_to_fit frees max_cache_size / 10 bytes more than required

MaxLimit    == 2      \* each cap of the meter ranges over 0..MaxLimit
MaxAmount   == 2      \* add_memory / free_memory / add_cycles arguments 0..MaxAmount
MaxUsage    == 4      \* the meter's counters stay within 0..MaxUsage
MaxElapsed  == 3      \* the meter's clock stays within 0..MaxElapsed milliseconds

MaxTasks    == 2      \* tasks 1..MaxTasks of one job
MaxLeaves   == 5      \* Merkle trees of 0..MaxLeaves leaves

MaxData     == 3      \* the sandbox splits inputs of 0..MaxData bytes

MaxChunkSetting == 3  \* min_chunk_size and max_chunk_size range over 0..MaxChunkSetting
MaxSplitLen   == 24   \* split_data is given 0..MaxSplitLen bytes
MaxChunks     == 2    \* chunk lists and frames of 0..MaxChunks chunks
MaxChunkLen   == 2    \* chunks of 0..MaxChunkLen bytes
MaxCodecCalls == 3    \* serialize_chunks / deserialize_chunks run at most this often in a row

MaxResultLen  == 2    \* task results of 0..MaxResultLen bytes
SplitChunkBytes == 65536      \* simulate_split: chunks of at least 64 KiB
MaxMemoryBytes  == 268435456  \* SandboxConfig::default().max_memory_bytes
MerkleChunkBytes == 4096      \* verify builds the Merkle tree of 4 KB chunks

NonceLen    == 24     \* XChaCha20 nonce bytes
TagLen      == 16     \* Poly1305 tag bytes

ChunkIds == 0..MaxChunkId
Threads  == 1..NumThreads
PeerIds  == 1..MaxPeerId
SwarmPeerIds == 1..MaxSwarm

(***************************************************************************)
(* ChunkStore                                                               *)
(***************************************************************************)
\* Option<Arc<ChunkData>>: None, or Some(chunk) carrying the chunk's id.  call
\* tells the chunks of one id apart: the chunk was handed to the insert call
\* that drew the number call from write_head.
NoChunk == [some |-> FALSE, id |-> 0, call |-> 0]
SomeChunk(id, call) == [some |-> TRUE, id |-> id, call |-> call]

\* The DashMap shard an id hashes to.
ShardOf(id) == id % NumShards

\* A DashMap write (insert / remove) takes the shard's lock exclusively: it
\* waits while another thread holds a Ref into that shard.
ShardWritable(t, id) ==
    \A u \in Threads \ {t} : ShardOf(id) \notin shardGuard[u]

\* parking_lot::RwLock on a slot: read() and write() wait for the writer.
SlotFree(i) == slotLock[i] = 0

IdleLocal == [id |-> 0, slot |-> 0, old |-> NoChunk, found |-> FALSE, call |-> 0]
NoResult  == [op |-> "none", id |-> 0, chunk |-> NoChunk]

MapRemove(m, k) == [x \in DOMAIN m \ {k} |-> m[x]]
MapInsert(m, k, v) == [x \in DOMAIN m \cup {k} |-> IF x = k THEN v ELSE m[x]]

\* ChunkStore::new
StoreInit ==
    /\ capacity \in 1..MaxCapacity
    /\ slots = [i \in 0..(capacity - 1) |-> NoChunk]
    /\ index = << >>
    /\ write_head = 0
    /\ evictions_total = 0
    /\ hits_total = 0
    /\ misses_total = 0
    /\ slotLock = [i \in 0..(capacity - 1) |-> 0]
    /\ shardGuard = [t \in Threads |-> {}]
    /\ spc = [t \in Threads |-> "idle"]
    /\ slocal = [t \in Threads |-> IdleLocal]
    /\ sres = [t \in Threads |-> NoResult]
    /\ insLog = << >>

\* insert, line 53: self.index.remove(&chunk_id)
InsertStart(t, id) ==
    /\ spc[t] = "idle"
    /\ write_head < MaxInserts
    /\ ShardWritable(t, id)
    /\ index' = MapRemove(index, id)
    /\ IF id \in DOMAIN index
         THEN /\ spc' = [spc EXCEPT ![t] = "ins_old"]
              /\ slocal' = [slocal EXCEPT ![t] = [id |-> id, slot |-> index[id], old |-> NoChunk,
                                                  found |-> TRUE, call |-> 0]]
         ELSE /\ spc' = [spc EXCEPT ![t] = "ins_head"]
              /\ slocal' = [slocal EXCEPT ![t] = [id |-> id, slot |-> 0, old |-> NoChunk,
                                                  found |-> FALSE, call |-> 0]]
    /\ sres' = [sres EXCEPT ![t] = NoResult]
    /\ UNCHANGED <<storeOthers, capacity, slots, write_head, evictions_total, hits_total,
                   misses_total, slotLock, shardGuard, insLog>>

\* insert, lines 54-59: clear the stale slot if it still holds this id
InsertClearOld(t) ==
    /\ spc[t] = "ins_old"
    /\ SlotFree(slocal[t].slot)
    /\ slots' = IF slots[slocal[t].slot].some /\ slots[slocal[t].slot].id = slocal[t].id
                  THEN [slots EXCEPT ![slocal[t].slot] = NoChunk]
                  ELSE slots
    /\ spc' = [spc EXCEPT ![t] = "ins_head"]
    /\ UNCHANGED <<storeOthers, capacity, index, write_head, evictions_total, hits_total,
                   misses_total, slotLock, shardGuard, slocal, sres, insLog>>

\* Mutant of InsertFetchAdd: the first empty slot is chosen when there is one.
InsertFetchAdd_FirstFree(t) ==
    /\ spc[t] = "ins_head"
    /\ write_head' = write_head + 1
    /\ LET free == {i \in DOMAIN slots : ~slots[i].some}
           chosen == IF free = {} THEN write_head % capacity
                     ELSE CHOOSE i \in free : \A j \in free : i <= j
       IN  slocal' = [slocal EXCEPT ![t].slot = chosen, ![t].call = write_head]
    /\ spc' = [spc EXCEPT ![t] = "ins_lock"]
    /\ UNCHANGED <<storeOthers, capacity, slots, index, evictions_total, hits_total,
                   misses_total, slotLock, shardGuard, sres, insLog>>

\* insert, line 63: write_head.fetch_add(1) % capacity
InsertFetchAdd(t) ==
    /\ spc[t] = "ins_head"
    /\ write_head' = write_head + 1
    /\ slocal' = [slocal EXCEPT ![t].slot = write_head % capacity, ![t].call = write_head]
    /\ spc' = [spc EXCEPT ![t] = "ins_lock"]
    /\ UNCHANGED <<storeOthers, capacity, slots, index, evictions_total, hits_total,
                   misses_total, slotLock, shardGuard, sres, insLog>>

\* insert, lines 67-68: slot.write(), slot.take()
InsertLockSlot(t) ==
    /\ spc[t] = "ins_lock"
    /\ SlotFree(slocal[t].slot)
    /\ slotLock' = [slotLock EXCEPT ![slocal[t].slot] = t]
    /\ slocal' = [slocal EXCEPT ![t].old = slots[slocal[t].slot]]
    /\ slots' = [slots EXCEPT ![slocal[t].slot] = NoChunk]
    /\ spc' = [spc EXCEPT ![t] = IF slots[slocal[t].slot].some THEN "ins_evict" ELSE "ins_put"]
    /\ UNCHANGED <<storeOthers, capacity, index, write_head, evictions_total, hits_total,
                   misses_total, shardGuard, sres, insLog>>

\* Mutant of InsertEvict: the overwritten chunk's id stays in the index.
InsertEvict_KeepIndex(t) ==
    /\ spc[t] = "ins_evict"
    /\ ShardWritable(t, slocal[t].old.id)
    /\ evictions_total' = evictions_total + 1
    /\ spc' = [spc EXCEPT ![t] = "ins_put"]
    /\ UNCHANGED <<storeOthers, capacity, slots, index, write_head, hits_total, misses_total,
                   slotLock, shardGuard, slocal, sres, insLog>>

\* insert, lines 69-70: index.remove(&old_chunk.id), evictions_total += 1
InsertEvict(t) ==
    /\ spc[t] = "ins_evict"
    /\ ShardWritable(t, slocal[t].old.id)
    /\ index' = MapRemove(index, slocal[t].old.id)
    /\ evictions_total' = evictions_total + 1
    /\ spc' = [spc EXCEPT ![t] = "ins_put"]
    /\ UNCHANGED <<storeOthers, capacity, slots, write_head, hits_total, misses_total,
                   slotLock, shardGuard, slocal, sres, insLog>>

\* The index update that ends insert (line 74).
InsertIndexPut(idx, id, slot) == MapInsert(idx, id, slot)

\* insert, lines 72-75: *slot = Some(chunk), index.insert(chunk_id, slot_idx), unlock
InsertPut(t) ==
    /\ spc[t] = "ins_put"
    /\ ShardWritable(t, slocal[t].id)
    /\ slots' = [slots EXCEPT ![slocal[t].slot] = SomeChunk(slocal[t].id, slocal[t].call)]
    /\ index' = InsertIndexPut(index, slocal[t].id, slocal[t].slot)
    /\ slotLock' = [slotLock EXCEPT ![slocal[t].slot] = 0]
    /\ spc' = [spc EXCEPT ![t] = "idle"]
    /\ sres' = [sres EXCEPT ![t] = [op |-> "insert", id |-> slocal[t].id, chunk |-> NoChunk]]
    /\ slocal' = [slocal EXCEPT ![t] = IdleLocal]
    /\ UNCHANGED <<storeOthers, capacity, write_head, evictions_total, hits_total,
                   misses_total, shardGuard>>

\* get, line 82: self.index.get(id); the Ref keeps the shard read-locked
GetStart(t, id) ==
    /\ spc[t] = "idle"
    /\ hits_total + misses_total + Cardinality({u \in Threads : spc[u] = "get_slot"}) < MaxGets
    /\ IF id \in DOMAIN index
         THEN /\ shardGuard' = [shardGuard EXCEPT ![t] = {ShardOf(id)}]
              /\ slocal' = [slocal EXCEPT ![t] = [IdleLocal EXCEPT !.id = id, !.slot = index[id]]]
              /\ spc' = [spc EXCEPT ![t] = "get_slot"]
              /\ sres' = [sres EXCEPT ![t] = NoResult]
              /\ UNCHANGED misses_total
         ELSE /\ misses_total' = misses_total + 1
              /\ sres' = [sres EXCEPT ![t] = [op |-> "get", id |-> id, chunk |-> NoChunk]]
              /\ UNCHANGED <<shardGuard, slocal, spc>>
    /\ UNCHANGED <<storeOthers, capacity, slots, index, write_head, evictions_total, hits_total,
                   slotLock, insLog>>

\* What get hands back for the slot it read (lines 84-87): the slot's chunk.
GetSlotResult(id, chunk) == chunk

\* get, lines 83-90: slot.read(), return the chunk in the slot, if any
GetSlot(t) ==
    /\ spc[t] = "get_slot"
    /\ SlotFree(slocal[t].slot)
    /\ IF slots[slocal[t].slot].some
         THEN /\ hits_total' = hits_total + 1
              /\ UNCHANGED misses_total
         ELSE /\ misses_total' = misses_total + 1
              /\ UNCHANGED hits_total
    /\ sres' = [sres EXCEPT ![t] = [op |-> "get", id |-> slocal[t].id,
                                    chunk |-> GetSlotResult(slocal[t].id, slots[slocal[t].slot])]]
    /\ shardGuard' = [shardGuard EXCEPT ![t] = {}]
    /\ spc' = [spc EXCEPT ![t] = "idle"]
    /\ slocal' = [slocal EXCEPT ![t] = IdleLocal]
    /\ UNCHANGED <<storeOthers, capacity, slots, index, write_head, evictions_total, slotLock, insLog>>

\* remove, line 95: self.index.remove(id)
RemoveStart(t, id) ==
    /\ spc[t] = "idle"
    /\ ShardWritable(t, id)
    /\ id \in DOMAIN index
    /\ index' = MapRemove(index, id)
    /\ slocal' = [slocal EXCEPT ![t] = [IdleLocal EXCEPT !.id = id, !.slot = index[id]]]
    /\ spc' = [spc EXCEPT ![t] = "rem_slot"]
    /\ sres' = [sres EXCEPT ![t] = NoResult]
    /\ UNCHANGED <<storeOthers, capacity, slots, write_head, evictions_total, hits_total,
                   misses_total, slotLock, shardGuard, insLog>>

\* remove, line 99: the id is not indexed, return None
RemoveMiss(t, id) ==
    /\ spc[t] = "idle"
    /\ ShardWritable(t, id)
    /\ id \notin DOMAIN index
    /\ sres[t] # [op |-> "remove", id |-> id, chunk |-> NoChunk]
    /\ sres' = [sres EXCEPT ![t] = [op |-> "remove", id |-> id, chunk |-> NoChunk]]
    /\ UNCHANGED <<storeOthers, capacity, slots, index, write_head, evictions_total, hits_total,
                   misses_total, slotLock, shardGuard, spc, slocal, insLog>>

\* remove, lines 96-97: slot.write(), slot.take()
RemoveTake(t) ==
    /\ spc[t] = "rem_slot"
    /\ SlotFree(slocal[t].slot)
    /\ slots' = [slots EXCEPT ![slocal[t].slot] = NoChunk]
    /\ sres' = [sres EXCEPT ![t] = [op |-> "remove", id |-> slocal[t].id,
                                    chunk |-> slots[slocal[t].slot]]]
    /\ spc' = [spc EXCEPT ![t] = "idle"]
    /\ slocal' = [slocal EXCEPT ![t] = IdleLocal]
    /\ UNCHANGED <<storeOthers, capacity, index, write_head, evictions_total, hits_total,
                   misses_total, slotLock, shardGuard, insLog>>

\* Concurrent callers of one store.
StoreNext ==
    \E t \in Threads :
        \/ \E id \in ChunkIds : InsertStart(t, id) /\ insLog' = insLog
        \/ InsertClearOld(t)
        \/ InsertFetchAdd(t)
        \/ InsertLockSlot(t)
        \/ InsertEvict(t)
        \/ InsertPut(t) /\ insLog' = insLog
        \/ \E id \in ChunkIds : GetStart(t, id)
        \/ GetSlot(t)
        \/ \E id \in ChunkIds : RemoveStart(t, id)
        \/ \E id \in ChunkIds : RemoveMiss(t, id)
        \/ RemoveTake(t)


\* One caller making insert and get calls one after the other (the setting of
\* test_chunk_store_eviction): no call overlaps another and nothing is removed.
SeqCaller == 1

StoreSeqNext ==
    \/ \E id \in ChunkIds : InsertStart(SeqCaller, id) /\ insLog' = insLog
    \/ InsertClearOld(SeqCaller)
    \/ InsertFetchAdd(SeqCaller)
    \/ InsertLockSlot(SeqCaller)
    \/ InsertEvict(SeqCaller)
    \/ InsertPut(SeqCaller) /\ insLog' = Append(insLog, slocal[SeqCaller].id)
    \/ \E id \in ChunkIds : GetStart(SeqCaller, id)
    \/ GetSlot(SeqCaller)


\* ---- ChunkData beyond the id, chunk_ttl and the expiry scan ----

\* The ChunkData handed to the insert call that draws number k from
\* write_head: the length of its data, its timestamp, and the instant at
\* which the call is made (no later than the chunk was built).
DefaultArgs == [k \in 0..(MaxInserts - 1) |-> [size |-> k + 1, timestamp |-> 0, inserted_at |-> 0]]

\* The calls of the expiry scan's caller: the first MaxTtlInserts inserts are
\* made at instants that never go back, each of a chunk built at or before
\* that instant.
TtlArgs ==
    {args \in [0..(MaxInserts - 1) ->
                  [size : 1..MaxInserts, timestamp : 0..MaxTime, inserted_at : 0..MaxTime]] :
        \A k \in DOMAIN args :
            /\ args[k].size = k + 1
            /\ args[k].timestamp <= args[k].inserted_at
            /\ k > 0 => args[k - 1].inserted_at <= args[k].inserted_at
            /\ k >= MaxTtlInserts => args[k] = [size |-> k + 1, timestamp |-> MaxTime,
                                                inserted_at |-> MaxTime]}

NoExpired == [op |-> "none", now |-> 0, ids |-> {}, count |-> 0]

\* The chunk a slot holds: its data length and its timestamp.
DataLen(chunk) == chunkArgs[chunk.call].size
Timestamp(chunk) == chunkArgs[chunk.call].timestamp

\* Instant::duration_since: zero when the other instant is later.
DurationSince(now, earlier) == IF now >= earlier THEN now - earlier ELSE 0

\* list_expired with the comparison of line 111 turned into >=.
ListExpired_AtLeast(now) ==
    {id \in DOMAIN index :
        /\ slots[index[id]].some
        /\ DurationSince(now, Timestamp(slots[index[id]])) >= chunk_ttl}

\* ChunkStore::list_expired, for a caller that is alone.  The order of the
\* returned Vec is the DashMap's iteration order: the ids are taken as a set.
ListExpired(now) ==
    {id \in DOMAIN index :
        /\ slots[index[id]].some
        /\ DurationSince(now, Timestamp(slots[index[id]])) > chunk_ttl}

\* The fold of stats over the index entries.
RECURSIVE SizeBytes(_, _, _)
SizeBytes(ids, idx, slts) ==
    IF ids = {} THEN 0
    ELSE LET id == CHOOSE x \in ids : TRUE
         IN  (IF slts[idx[id]].some THEN DataLen(slts[idx[id]]) ELSE 0)
                + SizeBytes(ids \ {id}, idx, slts)

\* ChunkStore::stats of the store with index idx and slots slts, for a caller
\* that is alone.
Stats(idx, slts) ==
    [size_bytes |-> SizeBytes(DOMAIN idx, idx, slts),
     chunk_count |-> Cardinality(DOMAIN idx),
     evictions_total |-> evictions_total,
     hits_total |-> hits_total,
     misses_total |-> misses_total]

\* The rest of ChunkStore::new(capacity, chunk_ttl), and the caller's chunks.
StoreTtlInit ==
    /\ chunk_ttl \in 1..MaxTtl
    /\ chunkArgs \in TtlArgs
    /\ expiredRes = NoExpired

\* The same for the specifications that never scan for expired chunks.
StoreTtlIdle ==
    /\ chunk_ttl = 1
    /\ chunkArgs = DefaultArgs
    /\ expiredRes = NoExpired

\* The instants a caller can pass as now: not before its last insert.
NowValues ==
    {now \in 0..(MaxTime + MaxTtl + 1) :
        \A k \in 0..(write_head - 1) : chunkArgs[k].inserted_at <= now}

\* expired = store.list_expired(now)
StoreListExpired(now) ==
    /\ spc[SeqCaller] = "idle"
    /\ LET expired == ListExpired(now)
       IN  expiredRes' = [op |-> "list_expired", now |-> now, ids |-> expired,
                          count |-> Cardinality(expired)]
    /\ UNCHANGED <<expiryOthers, chunk_ttl, chunkArgs, capacity, slots, index, write_head,
                   evictions_total, hits_total, misses_total, slotLock, shardGuard, spc,
                   slocal, sres, insLog>>

\* evicted = store.evict_expired(now): remove(id) for every listed id, each
\* taking whatever its slot holds.
StoreEvictExpired(now) ==
    /\ spc[SeqCaller] = "idle"
    /\ LET expired == ListExpired(now)
       IN  /\ index' = [id \in DOMAIN index \ expired |-> index[id]]
           /\ slots' = [i \in DOMAIN slots |->
                          IF \E id \in expired : index[id] = i THEN NoChunk ELSE slots[i]]
           /\ expiredRes' = [op |-> "evict_expired", now |-> now, ids |-> expired,
                             count |-> Cardinality(expired)]
    /\ UNCHANGED <<expiryOthers, chunk_ttl, chunkArgs, capacity, write_head, evictions_total,
                   hits_total, misses_total, slotLock, shardGuard, spc, slocal, sres, insLog>>

\* One caller inserting chunks and scanning for the expired ones (the setting
\* of test_chunk_store_expiration).
StoreTtlNext ==
    \/ \E id \in ChunkIds :
          write_head < MaxTtlInserts /\ InsertStart(SeqCaller, id) /\ insLog' = insLog
    \/ InsertClearOld(SeqCaller)
    \/ InsertFetchAdd(SeqCaller)
    \/ InsertLockSlot(SeqCaller)
    \/ InsertEvict(SeqCaller)
    \/ InsertPut(SeqCaller) /\ insLog' = insLog
    \/ \E now \in NowValues : StoreListExpired(now)
    \/ \E now \in NowValues : StoreEvictExpired(now)


(***************************************************************************)
(* GF(2^8) and the Reed-Solomon codec (crate reed_solomon_erasure,          *)
(* galois_8), as FecEngine and CesPipeline call it.  The codec's matrix is  *)
(* Vandermonde(r^c) times the inverse of its top k rows: shard r of a       *)
(* codeword is the value at point r of the polynomial of degree < k that    *)
(* takes the data bytes at the points 0..k-1.                               *)
(***************************************************************************)
RECURSIVE BitXor(_, _)
BitXor(a, b) ==
    IF a = 0 THEN b
    ELSE IF b = 0 THEN a
    ELSE (((a % 2) + (b % 2)) % 2) + 2 * BitXor(a \div 2, b \div 2)

\* Multiplication by x modulo the field polynomial x^8+x^4+x^3+x^2+1.
XTime(a) == IF 2 * a >= 256 THEN BitXor(2 * a - 256, 29) ELSE 2 * a

RECURSIVE GFMul(_, _)
GFMul(a, b) ==
    IF a = 0 \/ b = 0 THEN 0
    ELSE BitXor(IF b % 2 = 1 THEN a ELSE 0, GFMul(XTime(a), b \div 2))

\* Inverses of the differences of shard points (points are shard indices).
GFInvTable == [a \in 1..15 |-> CHOOSE b \in 1..255 : GFMul(a, b) = 1]
GFInv(a) == GFInvTable[a]

\* Lagrange basis weight of point pts[i] at x, over the points pts[j..].
RECURSIVE LagrangeWeight(_, _, _, _)
LagrangeWeight(pts, i, x, j) ==
    IF j > Len(pts) THEN 1
    ELSE IF j = i THEN LagrangeWeight(pts, i, x, j + 1)
    ELSE GFMul(GFMul(BitXor(x, pts[j]), GFInv(BitXor(pts[i], pts[j]))),
               LagrangeWeight(pts, i, x, j + 1))

\* Byte b of a shard: the shards vals[i] weighted by w[i], summed in the field.
RECURSIVE InterpolateByte(_, _, _, _)
InterpolateByte(w, vals, b, i) ==
    IF i > Len(w) THEN 0
    ELSE BitXor(GFMul(vals[i][b], w[i]), InterpolateByte(w, vals, b, i + 1))

\* The Lagrange weights of the points pts[i..] at x.
RECURSIVE LagrangeWeights(_, _, _)
LagrangeWeights(pts, x, i) ==
    IF i > Len(pts) THEN << >>
    ELSE <<LagrangeWeight(pts, i, x, 1)>> \o LagrangeWeights(pts, x, i + 1)

\* The shard at point x, from the shards vals[i] at the points pts[i].
InterpolateShard(pts, vals, len, x) ==
    LET w == LagrangeWeights(pts, x, 1)
    IN  [b \in 1..len |-> InterpolateByte(w, vals, b, 1)]

\* ReedSolomon::encode: the m parity shards of k equal-length data shards.
RSEncode(k, m, data, len) ==
    [j \in 1..m |-> InterpolateShard([i \in 1..k |-> i - 1], data, len, k + j - 1)]

\* Option<Vec<u8>> handed to the codec.
NoShard == [some |-> FALSE, bytes |-> << >>]
SomeShard(bytes) == [some |-> TRUE, bytes |-> bytes]

\* The first n indices (1-based) of opts that are present, in order.
RECURSIVE FirstPresent(_, _, _)
FirstPresent(opts, n, from) ==
    IF n = 0 \/ from > Len(opts) THEN << >>
    ELSE IF opts[from].some THEN <<from>> \o FirstPresent(opts, n - 1, from + 1)
    ELSE FirstPresent(opts, n, from + 1)

\* ReedSolomon::reconstruct_data (dataOnly) and ReedSolomon::reconstruct:
\* the shard count must be k+m, at least k shards must be present, present
\* shards must be non-empty; missing shards are computed from the first k
\* present ones.  reconstruct_data leaves missing parity shards missing.
RSReconstruct(k, m, opts, dataOnly) ==
    LET present == {i \in 1..Len(opts) : opts[i].some}
        first   == FirstPresent(opts, k, 1)
        pts     == [i \in 1..Len(first) |-> first[i] - 1]
        vals    == [i \in 1..Len(first) |-> opts[first[i]].bytes]
        len     == IF first = << >> THEN 0 ELSE Len(opts[first[1]].bytes)
    IN  IF Len(opts) < k + m THEN [ok |-> FALSE, err |-> "TooFewShards", shards |-> << >>]
        ELSE IF Len(opts) > k + m THEN [ok |-> FALSE, err |-> "TooManyShards", shards |-> << >>]
        ELSE IF \E i \in present : opts[i].bytes = << >>
            THEN [ok |-> FALSE, err |-> "EmptyShard", shards |-> << >>]
        ELSE IF \E i, j \in present : Len(opts[i].bytes) # Len(opts[j].bytes)
            THEN [ok |-> FALSE, err |-> "IncorrectShardSize", shards |-> << >>]
        ELSE IF Cardinality(present) = k + m THEN [ok |-> TRUE, err |-> "", shards |-> opts]
        ELSE IF Cardinality(present) < k
            THEN [ok |-> FALSE, err |-> "TooFewShardsPresent", shards |-> << >>]
        ELSE [ok |-> TRUE, err |-> "",
              shards |-> [i \in 1..(k + m) |->
                            IF opts[i].some THEN opts[i]
                            ELSE IF i > k /\ dataOnly THEN NoShard
                            ELSE SomeShard(InterpolateShard(pts, vals, len, i - 1))]]

(***************************************************************************)
(* FecEngine                                                                *)
(***************************************************************************)
FecBytes == {1, 2}
Payloads == UNION {[1..n -> FecBytes] : n \in 1..MaxPktLen}

\* Vec::resize(len, 0): cut or zero-pad to len bytes.
Resize(bytes, len) == [i \in 1..len |-> IF i <= Len(bytes) THEN bytes[i] ELSE 0]

RECURSIVE MaxLen(_)
MaxLen(seqs) ==
    IF seqs = << >> THEN 0
    ELSE LET rest == MaxLen(Tail(seqs))
         IN IF Len(Head(seqs)) >= rest THEN Len(Head(seqs)) ELSE rest

\* Option<Packet> in FecGroup.data_packets
NoPacket == [some |-> FALSE, data |-> << >>]
SomePacket(data) == [some |-> TRUE, data |-> data]

\* FecGroup::new
NewGroup(k, m) ==
    [data_packets |-> [i \in 1..k |-> NoPacket],
     parity_packets |-> << >>,
     received_count |-> 0,
     expected_data_count |-> k,
     expected_parity_count |-> m]

NoGroup == [exists |-> FALSE, group |-> NewGroup(0, 0)]
NoDecode == [done |-> FALSE, ok |-> FALSE, err |-> "", recovered |-> << >>]

\* FecEngine::encode: the parity packets (0-based index, bytes) of the batch.
Encode(packets, k, m) ==
    LET shard_len == MaxLen(packets)
        shards == [i \in 1..k |-> IF i <= Len(packets) THEN Resize(packets[i], shard_len)
                                  ELSE Resize(<< >>, shard_len)]
        parity == RSEncode(k, m, shards, shard_len)
    IN  [j \in 1..m |-> [index |-> j - 1, data |-> parity[j]]]

\* FecEngine::can_recover
CanRecover(group) == group.received_count >= group.expected_data_count

\* FecEngine::decode
Decode(group) ==
    LET k == group.expected_data_count
        m == group.expected_parity_count
        shard_len == MaxLen([i \in 1..k |-> group.data_packets[i].data])
        nshards == k + Len(group.parity_packets)
        \* lines 137-160: the data slots, then the parity packets in the order
        \* of the list (their index field is not looked at)
        shards == [i \in 1..nshards |->
                     IF i <= k THEN Resize(group.data_packets[i].data, shard_len)
                     ELSE Resize(group.parity_packets[i - k].data, shard_len)]
        present == [i \in 1..(k + m) |->
                      IF i <= k THEN group.data_packets[i].some
                      ELSE (i - k) <= Len(group.parity_packets)]
        zipped == IF nshards <= k + m THEN nshards ELSE k + m
        shard_options == [i \in 1..zipped |->
                            IF present[i] THEN SomeShard(shards[i]) ELSE NoShard]
        rec == RSReconstruct(k, m, shard_options, TRUE)
        missing_indices == IF rec.ok THEN {i \in 1..Len(rec.shards) : ~rec.shards[i].some} ELSE {}
    IN  IF ~CanRecover(group)
          THEN [done |-> TRUE, ok |-> FALSE, err |-> "InsufficientPackets", recovered |-> << >>]
        ELSE IF ~rec.ok
          THEN [done |-> TRUE, ok |-> FALSE, err |-> rec.err, recovered |-> << >>]
        ELSE IF missing_indices # {}
          THEN [done |-> TRUE, ok |-> FALSE, err |-> "ReconstructionIncomplete", recovered |-> << >>]
        ELSE [done |-> TRUE, ok |-> TRUE, err |-> "",
              recovered |-> [i \in 1..k |->
                               IF group.data_packets[i].some THEN NoPacket
                               ELSE SomePacket(rec.shards[i].bytes)]]

\* FecEngine::new, plus a sender holding k data packets of one group
FecInit ==
    /\ fecConfig \in {c \in [block_size : 2..MaxK, parity_count : 1..MaxM] :
                        c.parity_count < c.block_size}
    /\ sentData \in [1..fecConfig.block_size -> Payloads]
    /\ sentParity = << >>
    /\ fecPhase = "new"
    /\ active_groups = NoGroup
    /\ decodeRes = NoDecode
    /\ retired = FALSE

\* The FEC engine of a specification about another component: never used.
FecIdle ==
    /\ fecConfig = [block_size |-> 0, parity_count |-> 0]
    /\ sentData = << >>
    /\ sentParity = << >>
    /\ fecPhase = "new"
    /\ active_groups = NoGroup
    /\ decodeRes = NoDecode
    /\ retired = FALSE

\* The sender runs encode over its k packets; data and parity go on the wire.
FecEncode ==
    /\ fecPhase = "new"
    /\ sentParity' = Encode(sentData, fecConfig.block_size, fecConfig.parity_count)
    /\ fecPhase' = "open"
    /\ UNCHANGED <<fecOthers, fecConfig, sentData, active_groups, decodeRes, retired>>

\* active_groups.entry(group_id).or_insert_with(FecGroup::new)
GroupEntry ==
    IF active_groups.exists THEN active_groups.group
    ELSE NewGroup(fecConfig.block_size, fecConfig.parity_count)

\* add_packet, lines 223-227, on the group entry: store a fresh in-range index
StoreDataPacket(group, idx, data) ==
    IF idx < Len(group.data_packets) /\ ~group.data_packets[idx + 1].some
      THEN [group EXCEPT !.data_packets[idx + 1] = SomePacket(data),
                         !.received_count = @ + 1]
      ELSE group

\* FecEngine::add_packet: data packet idx of the group arrives (idx = k: an
\* index outside the group).
AddPacket(idx) ==
    /\ fecPhase = "open"
    /\ LET data == IF idx < Len(sentData) THEN sentData[idx + 1] ELSE sentData[1]
       IN active_groups' = [exists |-> TRUE, group |-> StoreDataPacket(GroupEntry, idx, data)]
    /\ decodeRes' = IF active_groups' = active_groups THEN decodeRes ELSE NoDecode
    /\ UNCHANGED <<fecOthers, fecConfig, sentData, sentParity, fecPhase, retired>>

\* add_parity, lines 240-241, on the group entry
StoreParityPacket(group, parity) ==
    [group EXCEPT !.parity_packets = Append(@, parity),
                  !.received_count = @ + 1]

\* FecEngine::add_parity: parity packet j of the group arrives.
AddParity(j) ==
    /\ fecPhase = "open"
    /\ Len(GroupEntry.parity_packets) < MaxParityRx
    /\ active_groups' = [exists |-> TRUE, group |-> StoreParityPacket(GroupEntry, sentParity[j + 1])]
    /\ decodeRes' = NoDecode
    /\ UNCHANGED <<fecOthers, fecConfig, sentData, sentParity, fecPhase, retired>>

\* A consumer looks the group up (get_group) and calls decode on it.
DecodeGroup ==
    /\ active_groups.exists
    /\ decodeRes' = Decode(active_groups.group)
    /\ UNCHANGED <<fecOthers, fecConfig, sentData, sentParity, fecPhase, active_groups, retired>>

\* FecEngine::remove_group; after a successful decode this retires the group.
RemoveGroup ==
    /\ active_groups.exists
    /\ active_groups' = NoGroup
    /\ retired' = (retired \/ decodeRes.ok)
    /\ decodeRes' = NoDecode
    /\ UNCHANGED <<fecOthers, fecConfig, sentData, sentParity, fecPhase>>

FecNext ==
    \/ FecEncode
    \/ \E idx \in 0..fecConfig.block_size : AddPacket(idx)
    \/ \E j \in 0..(fecConfig.parity_count - 1) : AddParity(j)
    \/ DecodeGroup
    \/ RemoveGroup

(***************************************************************************)
(* SignatureVerifier (dcdn/verifier.rs)                                     *)
(***************************************************************************)
\* PublicKey values: 0 is the all-zero key of the test fixtures, 1 is the key
\* of a real signer, 2 is 32 bytes that do not decode to a curve point.
PubKeys == {0, 1, 2}
\* Signature values carried by a chunk: 0 is the all-zero signature, 1 is the
\* signature of the chunk's data made with the secret of public key 1, 2 is
\* the all-zero signature on data for which it happens to verify under the
\* all-zero key (a point of small order: it does for some payloads).
Signatures == {0, 1, 2}
IsZeroSignature(signature) == signature \in {0, 2}

\* ed25519_dalek: pk.verify(data, &sig).is_ok()
Ed25519Valid(key, signature) ==
    \/ key = 1 /\ signature = 1
    \/ key = 0 /\ signature = 2

NoKey == [some |-> FALSE, key |-> 0]
SomeKey(k) == [some |-> TRUE, key |-> k]

\* A completed verify: its arguments, its result, and what it saw on its
\* way: the peer in revoked_keys (sawRevoked), a key in trusted_keys
\* (keyFound) under which the signature is valid or not (sigValid);
\* keyAtCheck tells whether the peer had a trusted key at the moment
\* revoked_keys was looked at.
NoVerify == [done |-> FALSE, peer |-> 0, signature |-> 0, afterRevoke |-> FALSE,
             result |-> "none", sawRevoked |-> FALSE, keyAtCheck |-> FALSE,
             keyFound |-> FALSE, sigValid |-> FALSE]
VerIdleLocal == [peer |-> 0, signature |-> 0, afterRevoke |-> FALSE, key |-> 0,
                 keyAtCheck |-> FALSE]

\* verify_ed25519 without the verification: every signature passes.
VerifyEd25519_AcceptAll(key, signature) == {"true"}

\* verify_ed25519: the possible outcomes for a key and a signature.  With
\* cfg!(test) an all-zero key and signature pass.  Otherwise the key must
\* decode (Err if not) and the signature must verify under it.
VerifyEd25519(key, signature) ==
    IF testBuild /\ key = 0 /\ IsZeroSignature(signature) THEN {"true"}
    ELSE IF key = 2 THEN {"err"}
    ELSE IF Ed25519Valid(key, signature) THEN {"true"} ELSE {"false"}

\* A DashMap write on trusted_keys waits while another thread holds a Ref
\* into the key's shard.
KeyShardWritable(t, p) ==
    \A u \in Threads \ {t} : keyGuard[u] = 0 \/ ShardOf(keyGuard[u]) # ShardOf(p)

\* SignatureVerifier::new
VerInit ==
    /\ trusted_keys = [p \in PeerIds |-> NoKey]
    /\ revoked_keys = {}
    /\ revLock = 0
    /\ keyGuard = [t \in Threads |-> 0]
    /\ verifications_total = 0
    /\ verifications_success = 0
    /\ verifications_failed = 0
    /\ vpc = [t \in Threads |-> "idle"]
    /\ vlocal = [t \in Threads |-> VerIdleLocal]
    /\ vres = NoVerify
    /\ revokeDone = {}
    /\ testBuild \in BOOLEAN

\* The verifier of a specification about another component: never used.
VerIdle == VerInit /\ testBuild = FALSE

VerifyDone(t, r) ==
    vres' = [done |-> TRUE, peer |-> vlocal[t].peer,
             signature |-> vlocal[t].signature,
             afterRevoke |-> vlocal[t].afterRevoke, result |-> r,
             sawRevoked |-> (vpc[t] = "v_revoked"),
             keyAtCheck |-> IF vpc[t] = "v_revoked"
                            THEN trusted_keys[vlocal[t].peer].some
                            ELSE vlocal[t].keyAtCheck,
             keyFound |-> (vpc[t] = "v_sig"),
             sigValid |-> (/\ vpc[t] = "v_sig"
                           /\ Ed25519Valid(vlocal[t].key, vlocal[t].signature))]

\* verify, entry: verifications_total.fetch_add(1)
VerifyStart(t, p, sig) ==
    /\ vpc[t] = "idle"
    /\ verifications_total < MaxVerifies
    /\ verifications_total' = verifications_total + 1
    /\ vlocal' = [vlocal EXCEPT ![t] = [peer |-> p, signature |-> sig,
                                        afterRevoke |-> p \in revokeDone, key |-> 0,
                                        keyAtCheck |-> FALSE]]
    /\ vpc' = [vpc EXCEPT ![t] = "v_revoked"]
    /\ UNCHANGED <<verOthers, trusted_keys, revoked_keys, revLock, keyGuard,
                   verifications_success, verifications_failed, vres, revokeDone,
                   testBuild>>

\* verify: the block that holds revoked_keys.read()
VerifyCheckRevoked(t) ==
    /\ vpc[t] = "v_revoked"
    /\ revLock = 0
    /\ IF vlocal[t].peer \in revoked_keys
       THEN /\ verifications_failed' = verifications_failed + 1
            /\ VerifyDone(t, "false")
            /\ vpc' = [vpc EXCEPT ![t] = "idle"]
            /\ vlocal' = [vlocal EXCEPT ![t] = VerIdleLocal]
       ELSE /\ vpc' = [vpc EXCEPT ![t] = "v_key"]
            /\ vlocal' = [vlocal EXCEPT ![t].keyAtCheck =
                              trusted_keys[vlocal[t].peer].some]
            /\ UNCHANGED <<verifications_failed, vres>>
    /\ UNCHANGED <<verOthers, trusted_keys, revoked_keys, revLock, keyGuard,
                   verifications_total, verifications_success, revokeDone, testBuild>>

\* verify: trusted_keys.get(..).context("Public key not found for peer")?
VerifyGetKey(t) ==
    /\ vpc[t] = "v_key"
    /\ IF trusted_keys[vlocal[t].peer].some
       THEN /\ vlocal' = [vlocal EXCEPT ![t].key = trusted_keys[vlocal[t].peer].key]
            /\ keyGuard' = [keyGuard EXCEPT ![t] = vlocal[t].peer]
            /\ vpc' = [vpc EXCEPT ![t] = "v_sig"]
            /\ UNCHANGED vres
       ELSE /\ VerifyDone(t, "err")
            /\ vpc' = [vpc EXCEPT ![t] = "idle"]
            /\ vlocal' = [vlocal EXCEPT ![t] = VerIdleLocal]
            /\ UNCHANGED keyGuard
    /\ UNCHANGED <<verOthers, trusted_keys, revoked_keys, revLock,
                   verifications_total, verifications_success, verifications_failed,
                   revokeDone, testBuild>>

\* verify: verify_ed25519, the success / failed counter, return; the Ref into
\* trusted_keys is dropped on return.
VerifySig(t) ==
    /\ vpc[t] = "v_sig"
    /\ \E r \in VerifyEd25519(vlocal[t].key, vlocal[t].signature) :
          /\ VerifyDone(t, r)
          /\ verifications_success' =
                 IF r = "true" THEN verifications_success + 1 ELSE verifications_success
          /\ verifications_failed' =
                 IF r = "false" THEN verifications_failed + 1 ELSE verifications_failed
    /\ keyGuard' = [keyGuard EXCEPT ![t] = 0]
    /\ vpc' = [vpc EXCEPT ![t] = "idle"]
    /\ vlocal' = [vlocal EXCEPT ![t] = VerIdleLocal]
    /\ UNCHANGED <<verOthers, trusted_keys, revoked_keys, revLock,
                   verifications_total, revokeDone, testBuild>>

\* add_trusted_key that also clears the revocation of the peer.
AddTrustedKey_Unrevoke(t, p, k) ==
    /\ vpc[t] = "idle"
    /\ KeyShardWritable(t, p)
    /\ revLock = 0
    /\ trusted_keys' = [trusted_keys EXCEPT ![p] = SomeKey(k)]
    /\ revoked_keys' = revoked_keys \ {p}
    /\ UNCHANGED <<verOthers, revLock, keyGuard, verifications_total,
                   verifications_success, verifications_failed, vpc, vlocal, vres,
                   revokeDone, testBuild>>

\* add_trusted_key: trusted_keys.insert(peer, public_key)
AddTrustedKey(t, p, k) ==
    /\ vpc[t] = "idle"
    /\ KeyShardWritable(t, p)
    /\ trusted_keys' = [trusted_keys EXCEPT ![p] = SomeKey(k)]
    /\ UNCHANGED <<verOthers, revoked_keys, revLock, keyGuard, verifications_total,
                   verifications_success, verifications_failed, vpc, vlocal, vres,
                   revokeDone, testBuild>>

\* revoke_key: revoked_keys.write() and revoked.insert(peer)
RevokeInsert(t, p) ==
    /\ vpc[t] = "idle"
    /\ revLock = 0
    /\ revLock' = t
    /\ revoked_keys' = revoked_keys \cup {p}
    /\ vlocal' = [vlocal EXCEPT ![t] = [VerIdleLocal EXCEPT !.peer = p]]
    /\ vpc' = [vpc EXCEPT ![t] = "r_remove"]
    /\ UNCHANGED <<verOthers, trusted_keys, keyGuard, verifications_total,
                   verifications_success, verifications_failed, vres, revokeDone,
                   testBuild>>

\* revoke_key: trusted_keys.remove(&peer), then the write guard is dropped
\* and the call returns.
RevokeRemove(t) ==
    /\ vpc[t] = "r_remove"
    /\ KeyShardWritable(t, vlocal[t].peer)
    /\ trusted_keys' = [trusted_keys EXCEPT ![vlocal[t].peer] = NoKey]
    /\ revLock' = 0
    /\ revokeDone' = revokeDone \cup {vlocal[t].peer}
    /\ vpc' = [vpc EXCEPT ![t] = "idle"]
    /\ vlocal' = [vlocal EXCEPT ![t] = VerIdleLocal]
    /\ UNCHANGED <<verOthers, revoked_keys, keyGuard, verifications_total,
                   verifications_success, verifications_failed, vres, testBuild>>

VerNext ==
    \E t \in Threads :
        \/ \E p \in PeerIds, sig \in Signatures : VerifyStart(t, p, sig)
        \/ VerifyCheckRevoked(t)
        \/ VerifyGetKey(t)
        \/ VerifySig(t)
        \/ \E p \in PeerIds, k \in PubKeys : AddTrustedKey(t, p, k)
        \/ \E p \in PeerIds : RevokeInsert(t, p)
        \/ RevokeRemove(t)
(***************************************************************************)
(* P2PEngine (dcdn/p2p.rs)                                                  *)
(***************************************************************************)
NoStats == [some |-> FALSE, uploaded_bytes |-> 0, downloaded_bytes |-> 0,
            last_interaction |-> FALSE, reliability_score |-> 0]
\* PeerStats::default(): reliability_score 1.0, nothing transferred
DefaultStats == [some |-> TRUE, uploaded_bytes |-> 0, downloaded_bytes |-> 0,
                 last_interaction |-> FALSE, reliability_score |-> 1]
\* The PeerStats values a caller hands to update_peer_state.
StatsValues == {[DefaultStats EXCEPT !.downloaded_bytes = d] : d \in 0..MaxBytes}

KnownPeers == {p \in DOMAIN peer_stats : peer_stats[p].some}
Range(s) == {s[i] : i \in 1..Len(s)}

\* f32 has a 24-bit significand: integers from 2^24 on lie on a grid of
\* 2, 4, 8, ... and a value is rounded to the nearest grid point, ties to the
\* even significand.
F32Exact == 16777216
RECURSIVE F32Ulp(_)
F32Ulp(n) == IF n < F32Exact THEN 1 ELSE 2 * F32Ulp(n \div 2)
RoundToGrid(n, ulp) ==
    LET q == n \div ulp
        r == n % ulp
    IN  IF 2 * r < ulp THEN q * ulp
        ELSE IF 2 * r > ulp THEN (q + 1) * ulp
        ELSE IF q % 2 = 0 THEN q * ulp ELSE (q + 1) * ulp

\* stats.uploaded_bytes as f32, stats.downloaded_bytes as f32
ToF32(n) == RoundToGrid(n, F32Ulp(n))

\* The f32 result of an operation whose exact value is t tenths.  From 2^23
\* on the f32 grid is made of integers; below, the byte counts of the model
\* are so small that the grid is finer than the distance of two scores.
RoundF32Tenths(t) ==
    IF t < 10 * (F32Exact \div 2) THEN t
    ELSE RoundToGrid(t, 10 * F32Ulp(t \div 10))

\* score = (downloaded * 0.7 + uploaded * 0.3) * reliability in f32, here in
\* tenths; reliability_score is 0.0 or 1.0 in the model.
Score(p) ==
    RoundF32Tenths(RoundF32Tenths(7 * ToF32(peer_stats[p].downloaded_bytes))
                     + RoundF32Tenths(3 * ToF32(peer_stats[p].uploaded_bytes)))
        * peer_stats[p].reliability_score

\* peer_scores after sort_by: the known peers by descending score.  The sort
\* is stable and the DashMap iterates in an arbitrary order, so peers with
\* equal scores come in any order.
SortedPeerScores ==
    {s \in [1..Cardinality(KnownPeers) -> KnownPeers] :
        /\ \A i, j \in DOMAIN s : i # j => s[i] # s[j]
        /\ \A i, j \in DOMAIN s : i < j => Score(s[i]) >= Score(s[j])}

Min(a, b) == IF a <= b THEN a ELSE b

\* calculate_unchoke_set that draws the optimistic peer from the whole vector.
CalculateUnchokeSet_AnyPeer ==
    UNION {
        LET regular_count == Min(p2pConfig.regular_unchoke_count, Len(s))
            regular == SubSeq(s, 1, regular_count)
        IN  IF Len(s) > regular_count /\ p2pConfig.optimistic_unchoke_count > 0
            THEN {Append(regular, s[i]) : i \in 1..Len(s)}
            ELSE {regular}
        : s \in SortedPeerScores }

\* calculate_unchoke_set that unchokes every peer outside the regular slice.
CalculateUnchokeSet_AllRemaining ==
    {LET regular_count == Min(p2pConfig.regular_unchoke_count, Len(s))
     IN  IF Len(s) > regular_count /\ p2pConfig.optimistic_unchoke_count > 0
         THEN s ELSE SubSeq(s, 1, regular_count)
     : s \in SortedPeerScores}

\* calculate_unchoke_set: every vector the call can return in this state.
CalculateUnchokeSet ==
    UNION {
        LET regular_count == Min(p2pConfig.regular_unchoke_count, Len(s))
            regular == SubSeq(s, 1, regular_count)
        IN  IF Len(s) > regular_count /\ p2pConfig.optimistic_unchoke_count > 0
            THEN {Append(regular, s[i]) : i \in (regular_count + 1)..Len(s)}
            ELSE {regular}
        : s \in SortedPeerScores }

NoRequest == [done |-> FALSE, peer |-> 0, ok |-> FALSE, published |-> << >>]
P2PIdleLocal == [peer |-> 0, unchoke_set |-> << >>, published |-> << >>,
                 observed |-> << >>, count |-> 0]
NoRead == [done |-> FALSE, call |-> "none", observed |-> << >>, bytes_per_peer |-> 0,
           published |-> << >>]

\* P2PEngine::new
P2PInit ==
    /\ p2pConfig \in [regular_unchoke_count : 0..MaxRegular,
                      optimistic_unchoke_count : 0..MaxOptimistic]
    /\ peer_stats = [p \in SwarmPeerIds |-> NoStats]
    /\ unchoked_peers = << >>
    /\ unchokeReaders = {}
    /\ ppc = [t \in Threads |-> "idle"]
    /\ plocal = [t \in Threads |-> P2PIdleLocal]
    /\ reqRes = NoRequest
    /\ readRes = NoRead

\* Byte counts of a ranked peer: small ones, and ones past the f32 significand.
ByteCounts == (0..MaxBytes) \cup {F32Exact + b : b \in 0..MaxBytes}
RankedStats ==
    {[DefaultStats EXCEPT !.downloaded_bytes = d, !.uploaded_bytes = u,
                          !.reliability_score = r] :
        d \in ByteCounts, u \in 0..MaxBytes, r \in 0..1}

\* P2PEngine::new and the peers' statistics when update_unchoke_set is called
UnchokeInit ==
    /\ p2pConfig \in [regular_unchoke_count : 0..MaxRanked,
                      optimistic_unchoke_count : 0..MaxOptimistic]
    /\ peer_stats \in [1..MaxRanked -> RankedStats \cup {NoStats}]
    /\ unchoked_peers = << >>
    /\ unchokeReaders = {}
    /\ ppc = [t \in Threads |-> "idle"]
    /\ plocal = [t \in Threads |-> P2PIdleLocal]
    /\ reqRes = NoRequest
    /\ readRes = NoRead

\* The P2P engine of a specification about another component: never used.
P2PIdle ==
    /\ P2PInit
    /\ p2pConfig = [regular_unchoke_count |-> 0, optimistic_unchoke_count |-> 0]

\* add_peer: peer_stats.insert(peer, PeerStats::default())
AddPeer(t, p) ==
    /\ ppc[t] = "idle"
    /\ peer_stats' = [peer_stats EXCEPT ![p] = DefaultStats]
    /\ UNCHANGED <<p2pOthers, p2pConfig, unchoked_peers, unchokeReaders, ppc, plocal, reqRes, readRes>>

\* remove_peer: peer_stats.remove(peer)
RemovePeer(t, p) ==
    /\ ppc[t] = "idle"
    /\ peer_stats' = [peer_stats EXCEPT ![p] = NoStats]
    /\ UNCHANGED <<p2pOthers, p2pConfig, unchoked_peers, unchokeReaders, ppc, plocal, reqRes, readRes>>

\* update_peer_state: peer_stats.insert(peer, stats)
UpdatePeerState(t, p, stats) ==
    /\ ppc[t] = "idle"
    /\ peer_stats' = [peer_stats EXCEPT ![p] = stats]
    /\ UNCHANGED <<p2pOthers, p2pConfig, unchoked_peers, unchokeReaders, ppc, plocal, reqRes, readRes>>

\* update_uploaded: stats.uploaded_bytes += bytes when the peer is known
UpdateUploaded(t, p, bytes) ==
    /\ ppc[t] = "idle"
    /\ peer_stats[p].some => peer_stats[p].uploaded_bytes + bytes <= MaxBytes
    /\ peer_stats' = IF peer_stats[p].some
                     THEN [peer_stats EXCEPT ![p].uploaded_bytes = @ + bytes]
                     ELSE peer_stats
    /\ UNCHANGED <<p2pOthers, p2pConfig, unchoked_peers, unchokeReaders, ppc, plocal, reqRes, readRes>>

\* update_downloaded: stats.downloaded_bytes += bytes when the peer is known
UpdateDownloaded(t, p, bytes) ==
    /\ ppc[t] = "idle"
    /\ peer_stats[p].some => peer_stats[p].downloaded_bytes + bytes <= MaxBytes
    /\ peer_stats' = IF peer_stats[p].some
                     THEN [peer_stats EXCEPT ![p].downloaded_bytes = @ + bytes]
                     ELSE peer_stats
    /\ UNCHANGED <<p2pOthers, p2pConfig, unchoked_peers, unchokeReaders, ppc, plocal, reqRes, readRes>>

\* update_unchoke_set: let unchoke_set = self.calculate_unchoke_set().await
UnchokeCalculate(t) ==
    /\ ppc[t] = "idle"
    /\ \E set \in CalculateUnchokeSet :
          plocal' = [plocal EXCEPT ![t] = [P2PIdleLocal EXCEPT !.unchoke_set = set]]
    /\ ppc' = [ppc EXCEPT ![t] = "u_publish"]
    /\ UNCHANGED <<p2pOthers, p2pConfig, peer_stats, unchoked_peers, unchokeReaders, reqRes, readRes>>

\* update_unchoke_set with a write lock that does not wait for the readers.
UnchokePublish_NoWait(t) ==
    /\ ppc[t] = "u_publish"
    /\ unchoked_peers' = plocal[t].unchoke_set
    /\ ppc' = [ppc EXCEPT ![t] = "idle"]
    /\ plocal' = [plocal EXCEPT ![t] = P2PIdleLocal]
    /\ UNCHANGED <<p2pOthers, p2pConfig, peer_stats, unchokeReaders, reqRes, readRes>>

\* update_unchoke_set: unchoked_peers.write().await, *unchoked = unchoke_set,
\* return (the write guard is dropped).  write() waits for the read guards.
UnchokePublish(t) ==
    /\ ppc[t] = "u_publish"
    /\ unchokeReaders = {}
    /\ unchoked_peers' = plocal[t].unchoke_set
    /\ ppc' = [ppc EXCEPT ![t] = "idle"]
    /\ plocal' = [plocal EXCEPT ![t] = P2PIdleLocal]
    /\ UNCHANGED <<p2pOthers, p2pConfig, peer_stats, unchokeReaders, reqRes, readRes>>

\* handle_chunk_request: let unchoked = self.unchoked_peers.read().await
\* (no writer ever holds the lock between two steps of the model)
RequestLock(t, p) ==
    /\ ppc[t] = "idle"
    /\ unchokeReaders' = unchokeReaders \cup {t}
    /\ plocal' = [plocal EXCEPT ![t] = [P2PIdleLocal EXCEPT !.peer = p,
                                                            !.published = unchoked_peers]]
    /\ ppc' = [ppc EXCEPT ![t] = "q_check"]
    /\ UNCHANGED <<p2pOthers, p2pConfig, peer_stats, unchoked_peers, reqRes, readRes>>

\* handle_chunk_request: the contains check, bail!("... is choked") or the
\* last_interaction update and Ok(()); the read guard is dropped on return.
RequestCheck(t) ==
    /\ ppc[t] = "q_check"
    /\ LET p  == plocal[t].peer
           ok == p \in Range(unchoked_peers)
       IN  /\ reqRes' = [done |-> TRUE, peer |-> p, ok |-> ok,
                         published |-> plocal[t].published]
           /\ peer_stats' = IF ok /\ peer_stats[p].some
                            THEN [peer_stats EXCEPT ![p].last_interaction = TRUE]
                            ELSE peer_stats
    /\ unchokeReaders' = unchokeReaders \ {t}
    /\ ppc' = [ppc EXCEPT ![t] = "idle"]
    /\ plocal' = [plocal EXCEPT ![t] = P2PIdleLocal]
    /\ UNCHANGED <<p2pOthers, p2pConfig, unchoked_peers, readRes>>

\* update_unchoke_set called by one task over the statistics as they stand
UnchokeNext == UnchokeCalculate(SeqCaller) \/ UnchokePublish(SeqCaller)

\* get_unchoked_peers that clones the vector without holding the read guard.
GetUnchokedLock_NoGuard(t) ==
    /\ ppc[t] = "idle"
    /\ ppc' = [ppc EXCEPT ![t] = "g_clone"]
    /\ UNCHANGED <<p2pOthers, p2pConfig, peer_stats, unchoked_peers, unchokeReaders,
                   plocal, reqRes, readRes>>

\* get_unchoked_peers: self.unchoked_peers.read().await
GetUnchokedLock(t) ==
    /\ ppc[t] = "idle"
    /\ unchokeReaders' = unchokeReaders \cup {t}
    /\ ppc' = [ppc EXCEPT ![t] = "g_clone"]
    /\ UNCHANGED <<p2pOthers, p2pConfig, peer_stats, unchoked_peers, plocal, reqRes, readRes>>

\* get_bandwidth_allocation: the read guard, count = unchoked.len().max(1)
BandwidthLock(t) ==
    /\ ppc[t] = "idle"
    /\ unchokeReaders' = unchokeReaders \cup {t}
    /\ plocal' = [plocal EXCEPT ![t].count = IF Len(unchoked_peers) >= 1
                                              THEN Len(unchoked_peers) ELSE 1]
    /\ ppc' = [ppc EXCEPT ![t] = "b_iter"]
    /\ UNCHANGED <<p2pOthers, p2pConfig, peer_stats, unchoked_peers, reqRes, readRes>>

\* get_unchoked_peers: clone(), and get_bandwidth_allocation: iter().map(),
\* take the vector's elements one after the other; at its end the call
\* returns what it collected and the read guard is dropped.
ReadElement(t) ==
    /\ ppc[t] \in {"g_clone", "b_iter"}
    /\ IF Len(plocal[t].observed) < Len(unchoked_peers)
       THEN /\ plocal' = [plocal EXCEPT ![t].observed =
                              Append(@, unchoked_peers[Len(@) + 1])]
            /\ UNCHANGED <<unchokeReaders, ppc, readRes>>
       ELSE /\ readRes' = [done |-> TRUE,
                           call |-> IF ppc[t] = "g_clone" THEN "get_unchoked_peers"
                                    ELSE "get_bandwidth_allocation",
                           observed |-> plocal[t].observed,
                           bytes_per_peer |->
                               IF ppc[t] = "g_clone" THEN 0
                               ELSE (MaxUploadMbps * 1000000) \div plocal[t].count,
                           published |-> unchoked_peers]
            /\ unchokeReaders' = unchokeReaders \ {t}
            /\ ppc' = [ppc EXCEPT ![t] = "idle"]
            /\ plocal' = [plocal EXCEPT ![t] = P2PIdleLocal]
    /\ UNCHANGED <<p2pOthers, p2pConfig, peer_stats, unchoked_peers, reqRes>>

P2PNext ==
    \E t \in Threads :
        \/ \E p \in SwarmPeerIds : AddPeer(t, p)
        \/ \E p \in SwarmPeerIds : RemovePeer(t, p)
        \/ \E p \in SwarmPeerIds, stats \in StatsValues : UpdatePeerState(t, p, stats)
        \/ \E p \in SwarmPeerIds, bytes \in 1..MaxBytes : UpdateUploaded(t, p, bytes)
        \/ \E p \in SwarmPeerIds, bytes \in 1..MaxBytes : UpdateDownloaded(t, p, bytes)
        \/ UnchokeCalculate(t)
        \/ UnchokePublish(t)
        \/ \E p \in SwarmPeerIds : RequestLock(t, p)
        \/ RequestCheck(t)

\* The readers of the unchoke set next to update_unchoke_set, while peers
\* come, go and download.
ReadersNext ==
    \E t \in Threads :
        \/ \E p \in SwarmPeerIds : AddPeer(t, p)
        \/ \E p \in SwarmPeerIds : RemovePeer(t, p)
        \/ \E p \in SwarmPeerIds, bytes \in 1..MaxBytes : UpdateDownloaded(t, p, bytes)
        \/ UnchokeCalculate(t)
        \/ UnchokePublish(t)
        \/ GetUnchokedLock(t)
        \/ BandwidthLock(t)
        \/ ReadElement(t)
(***************************************************************************)
(* CesPipeline (ces.rs) and FileDetector (file_detector.rs)                 *)
(***************************************************************************)
\* The inputs handed to process: byte strings of every detected file type.
InputSamples ==
    { << >>,                                                  \* empty
      <<1, 2, 3>>,                                            \* shorter than a magic number
      <<80, 75, 3, 4, 20>>,                                   \* ZIP
      <<31, 139, 8, 0>>,                                      \* GZIP
      <<137, 80, 78, 71>>,                                    \* PNG
      <<0, 0, 0, 24, 102, 116, 121, 112, 105, 115, 111, 109>>, \* MP4 (ftyp)
      <<255, 251, 144, 0>>,                                   \* MP3 frame sync
      <<127, 69, 76, 70>>,                                    \* ELF
      <<104, 101, 108, 108, 111>>,                            \* text
      <<0, 200, 1, 201, 2>> }                                 \* none of these

Algorithms == {"Zstd", "Brotli", "None"}

\* The encryption key of the pipeline (every byte of it) and the bytes the
\* random nonce of one encrypt call can be made of.
KeyByte == 90
NonceSeeds == 1..MaxNonce

Prefix(s, n) == SubSeq(s, 1, n)
StartsWith(s, p) == Len(s) >= Len(p) /\ Prefix(s, Len(p)) = p

\* FileDetector::is_likely_text: over 90% of the first 512 bytes are
\* ascii_graphic (33..126) or ascii_whitespace (tab, LF, FF, CR, space).
IsLikelyText(data) ==
    LET sample_size == Min(Len(data), 512)
        printable_count ==
            Cardinality({i \in 1..sample_size :
                            \/ data[i] \in 33..126
                            \/ data[i] \in {9, 10, 12, 13, 32}})
    IN  10 * printable_count > 9 * sample_size

\* FileDetector::detect_from_content, the match arms in their order
DetectFromContent(data) ==
    IF Len(data) < 4 THEN "Unknown"
    ELSE IF StartsWith(data, <<80, 75, 3, 4>>) THEN "Compressed"
    ELSE IF StartsWith(data, <<31, 139>>) THEN "Compressed"
    ELSE IF StartsWith(data, <<137, 80, 78, 71>>) THEN "Image"
    ELSE IF StartsWith(data, <<255, 216, 255>>) THEN "Image"
    ELSE IF StartsWith(data, <<71, 73, 70, 56>>) THEN "Image"
    ELSE IF Len(data) >= 12 /\ SubSeq(data, 5, 8) = <<102, 116, 121, 112>> THEN "Video"
    ELSE IF /\ StartsWith(data, <<82, 73, 70, 70>>) /\ Len(data) >= 12
            /\ SubSeq(data, 9, 12) = <<65, 86, 73, 32>> THEN "Video"
    ELSE IF data[1] = 255 /\ data[2] >= 240 THEN "Audio"
    ELSE IF StartsWith(data, <<102, 76, 97, 67>>) THEN "Audio"
    ELSE IF /\ StartsWith(data, <<82, 73, 70, 70>>) /\ Len(data) >= 12
            /\ SubSeq(data, 9, 12) = <<87, 65, 86, 69>> THEN "Audio"
    ELSE IF StartsWith(data, <<127, 69, 76, 70>>) THEN "Binary"
    ELSE IF StartsWith(data, <<77, 90>>) THEN "Binary"
    ELSE IF IsLikelyText(data) THEN "Text"
    ELSE "Unknown"

\* FileType::recommended_compression_level
RecommendedCompressionLevel(file_type) ==
    CASE file_type = "Compressed" -> 0
      [] file_type = "Image"      -> 1
      [] file_type = "Video"      -> 0
      [] file_type = "Audio"      -> 1
      [] file_type = "Text"       -> 9
      [] file_type = "Binary"     -> 6
      [] OTHER                    -> 3

\* FileType::skip_compression
SkipCompression(file_type) == file_type \in {"Compressed", "Video"}

\* A compressed stream.  A zstd frame starts with the magic number
\* 28 B5 2F FD; here it then carries the content size and the content as one
\* raw block.  A brotli stream has no magic number; here it is a header byte
\* for the window size 22, the content size and the content.
ZstdMagic == <<40, 181, 47, 253>>
BrotliHeader == <<22>>
StreamOf(header, data) == header \o <<Len(data)>> \o data

\* What a decoder makes of bytes: the content of a well-formed stream, an
\* error for anything else.
Ok(bytes)  == [ok |-> TRUE, bytes |-> bytes]
Err == [ok |-> FALSE, bytes |-> << >>]
DecodeStream(header, bytes) ==
    IF /\ StartsWith(bytes, header)
       /\ Len(bytes) > Len(header)
       /\ Len(bytes) = Len(header) + 1 + bytes[Len(header) + 1]
    THEN Ok(SubSeq(bytes, Len(header) + 2, Len(bytes)))
    ELSE Err

\* CesPipeline::compress_with_level
CompressWithLevel(config, data, level) ==
    IF level = 0 THEN data
    ELSE CASE config.compression_algorithm = "Zstd"   -> StreamOf(ZstdMagic, data)
           [] config.compression_algorithm = "Brotli" -> StreamOf(BrotliHeader, data)
           [] OTHER                                   -> data

\* CesPipeline::decompress: always with the configured algorithm
Decompress(config, data) ==
    CASE config.compression_algorithm = "Zstd"   -> DecodeStream(ZstdMagic, data)
      [] config.compression_algorithm = "Brotli" -> DecodeStream(BrotliHeader, data)
      [] OTHER                                   -> Ok(data)

\* XChaCha20-Poly1305 as a stream cipher with a 16-byte tag: the key stream
\* depends on key, nonce and position, the tag on key, nonce and ciphertext.
RECURSIVE SumBytes(_)
SumBytes(s) == IF s = << >> THEN 0 ELSE (Head(s) + SumBytes(Tail(s))) % 256
KeyStream(key, nonce, i) == (key + 7 * SumBytes(nonce) + 13 * i) % 256
AeadTag(key, nonce, ct) ==
    [j \in 1..TagLen |-> (key + SumBytes(nonce) + 3 * SumBytes(ct) + j) % 256]
AeadEncrypt(key, nonce, pt) ==
    LET ct == [i \in 1..Len(pt) |-> BitXor(pt[i], KeyStream(key, nonce, i))]
    IN  ct \o AeadTag(key, nonce, ct)
AeadDecrypt(key, nonce, input) ==
    IF Len(input) < TagLen THEN Err
    ELSE LET ct  == SubSeq(input, 1, Len(input) - TagLen)
             tag == SubSeq(input, Len(input) - TagLen + 1, Len(input))
         IN  IF tag # AeadTag(key, nonce, ct) THEN Err
             ELSE Ok([i \in 1..Len(ct) |-> BitXor(ct[i], KeyStream(key, nonce, i))])

\* CesPipeline::encrypt: the random nonce, then the ciphertext
Encrypt(key, seed, data) ==
    LET nonce_bytes == [i \in 1..NonceLen |-> seed]
    IN  nonce_bytes \o AeadEncrypt(key, nonce_bytes, data)

\* CesPipeline::decrypt
Decrypt(key, data) ==
    IF Len(data) < NonceLen THEN Err
    ELSE AeadDecrypt(key, SubSeq(data, 1, NonceLen), SubSeq(data, NonceLen + 1, Len(data)))

\* (n as u32).to_le_bytes() and u32::from_le_bytes
\* (the four low bytes of n: the cast keeps n modulo 2^32)
U32ToLeBytes(n) ==
    <<n % 256, (n \div 256) % 256, (n \div 65536) % 256, (n \div 16777216) % 256>>
U32FromLeBytes(b) == b[1] + 256 * b[2] + 65536 * b[3] + 16777216 * b[4]

\* ReedSolomon::new: at least one data and one parity shard, 256 at most
RSNew(k, m) == k >= 1 /\ m >= 1 /\ k + m <= 256

\* CesPipeline::shard
Shard(config, data) ==
    LET data_shards   == config.shard_count
        parity_shards == config.parity_count
        shard_size    == (Len(data) + data_shards - 1) \div data_shards
        data_shards_vec ==
            [i \in 1..data_shards |->
                LET start == (i - 1) * shard_size
                    end   == Min(start + shard_size, Len(data))
                IN  Resize(IF start < Len(data) THEN SubSeq(data, start + 1, end) ELSE << >>,
                           shard_size)]
    IN  IF ~RSNew(data_shards, parity_shards) THEN [ok |-> FALSE, shards |-> << >>]
        ELSE [ok |-> TRUE,
              shards |-> data_shards_vec
                           \o RSEncode(data_shards, parity_shards, data_shards_vec, shard_size)]

RECURSIVE Concat(_)
Concat(seqs) == IF seqs = << >> THEN << >> ELSE Head(seqs) \o Concat(Tail(seqs))

\* CesPipeline::reconstruct_shards
ReconstructShards(config, shards) ==
    LET data_shards == config.shard_count
        rec == RSReconstruct(data_shards, config.parity_count, shards, FALSE)
    IN  IF ~RSNew(data_shards, config.parity_count) THEN Err
        ELSE IF ~rec.ok THEN Err
        ELSE Ok(Concat([i \in 1..data_shards |-> rec.shards[i].bytes]))

\* CesPipeline::process
Process(config, key, seed, data) ==
    LET file_type  == DetectFromContent(data)
        compressed == IF SkipCompression(file_type) THEN data
                      ELSE CompressWithLevel(config, data,
                                             RecommendedCompressionLevel(file_type))
        encrypted  == Encrypt(key, seed, compressed)
        data_to_shard == U32ToLeBytes(Len(encrypted)) \o encrypted
    IN  Shard(config, data_to_shard)

\* CesPipeline::reconstruct
Reconstruct(config, key, shards) ==
    LET reconstructed == ReconstructShards(config, shards)
        enc_len   == U32FromLeBytes(reconstructed.bytes)
        decrypted == Decrypt(key, SubSeq(reconstructed.bytes, 5, 4 + enc_len))
    IN  IF ~reconstructed.ok THEN Err
        ELSE IF Len(reconstructed.bytes) < 4 THEN Err
        ELSE IF Len(reconstructed.bytes) < 4 + enc_len THEN Err
        ELSE IF ~decrypted.ok THEN Err
        ELSE Decompress(config, decrypted.bytes)

NoShards == [done |-> FALSE, ok |-> FALSE, shards |-> << >>]
NoOutput == [done |-> FALSE, ok |-> FALSE, bytes |-> << >>]

\* CesPipeline::new(config).with_key(key), and the caller's input
CesInit ==
    /\ cesConfig \in [shard_count : 1..MaxShards, parity_count : 0..MaxParity,
                      compression_algorithm : Algorithms]
    /\ encryption_key = KeyByte
    /\ cesInput \in InputSamples
    /\ cesShards = NoShards
    /\ cesPresented = << >>
    /\ cesOutput = NoOutput

\* The pipeline of a specification about another component: never used.
CesIdle ==
    /\ cesConfig = [shard_count |-> 1, parity_count |-> 1, compression_algorithm |-> "None"]
    /\ encryption_key = KeyByte
    /\ cesInput = << >>
    /\ cesShards = NoShards
    /\ cesPresented = << >>
    /\ cesOutput = NoOutput

\* process(X): the caller keeps the returned shards, all of them present.
CesProcess(seed) ==
    /\ ~cesShards.done
    /\ LET res == Process(cesConfig, encryption_key, seed, cesInput)
       IN  /\ cesShards' = [done |-> TRUE, ok |-> res.ok, shards |-> res.shards]
           /\ cesPresented' = [i \in 1..Len(res.shards) |-> SomeShard(res.shards[i])]
    /\ UNCHANGED <<cesOthers, cesConfig, encryption_key, cesInput, cesOutput>>

\* A shard is lost before reconstruction: the caller marks it missing.
CesLoseShard(i) ==
    /\ cesShards.ok
    /\ ~cesOutput.done
    /\ i \in DOMAIN cesPresented
    /\ cesPresented[i].some
    /\ Cardinality({j \in DOMAIN cesPresented : ~cesPresented[j].some}) < MaxLost
    /\ cesPresented' = [cesPresented EXCEPT ![i] = NoShard]
    /\ UNCHANGED <<cesOthers, cesConfig, encryption_key, cesInput, cesShards, cesOutput>>

\* reconstruct(shards) with the same pipeline
CesReconstruct ==
    /\ cesShards.ok
    /\ ~cesOutput.done
    /\ LET res == Reconstruct(cesConfig, encryption_key, cesPresented)
       IN  cesOutput' = [done |-> TRUE, ok |-> res.ok, bytes |-> res.bytes]
    /\ UNCHANGED <<cesOthers, cesConfig, encryption_key, cesInput, cesShards, cesPresented>>

CesNext ==
    \/ \E seed \in NonceSeeds : CesProcess(seed)
    \/ \E i \in 1..(MaxShards + MaxParity) : CesLoseShard(i)
    \/ CesReconstruct

(***************************************************************************)
(* DcdnConfig (dcdn/config.rs)                                              *)
(***************************************************************************)
\* The fields validate reads.  idle_timeout_ms is 0, just below the floor of
\* line 203, or at it.
DcdnConfigs ==
    [storage : [ring_buffer_size_mb : 0..MaxSetting, chunk_ttl_seconds : 0..MaxSetting],
     fec     : [default_block_size : 0..MaxFecSetting, default_parity_count : 0..MaxFecSetting],
     p2p     : [max_upload_mbps : 0..MaxSetting, max_download_mbps : 0..MaxSetting,
                unchoke_interval_seconds : 0..MaxSetting,
                regular_unchoke_count : 0..MaxSetting],
     quic    : [max_concurrent_connections : 0..MaxSetting,
                max_streams_per_connection : 0..MaxSetting,
                idle_timeout_ms : {0, MinIdleTimeoutMs - 1, MinIdleTimeoutMs}]]

IdleConfig ==
    [storage |-> [ring_buffer_size_mb |-> 0, chunk_ttl_seconds |-> 0],
     fec     |-> [default_block_size |-> 0, default_parity_count |-> 0],
     p2p     |-> [max_upload_mbps |-> 0, max_download_mbps |-> 0,
                  unchoke_interval_seconds |-> 0, regular_unchoke_count |-> 0],
     quic    |-> [max_concurrent_connections |-> 0, max_streams_per_connection |-> 0,
                  idle_timeout_ms |-> 0]]

NotValidated == [done |-> FALSE, ok |-> FALSE, err |-> ""]
Bail(msg) == [done |-> TRUE, ok |-> FALSE, err |-> msg]

\* DcdnConfig::validate
Validate(self) ==
    IF self.storage.ring_buffer_size_mb = 0 THEN Bail("ring_buffer_size_mb must be > 0")
    ELSE IF self.storage.chunk_ttl_seconds = 0 THEN Bail("chunk_ttl_seconds must be > 0")
    ELSE IF self.fec.default_parity_count >= self.fec.default_block_size
      THEN Bail("default_parity_count must be < default_block_size")
    ELSE IF self.fec.default_block_size = 0 THEN Bail("default_block_size must be > 0")
    ELSE IF self.p2p.regular_unchoke_count = 0 THEN Bail("regular_unchoke_count must be > 0")
    ELSE IF self.p2p.max_upload_mbps = 0 THEN Bail("max_upload_mbps must be > 0")
    ELSE IF self.p2p.max_download_mbps = 0 THEN Bail("max_download_mbps must be > 0")
    ELSE IF self.quic.max_concurrent_connections = 0
      THEN Bail("max_concurrent_connections must be > 0")
    ELSE IF self.quic.max_streams_per_connection = 0
      THEN Bail("max_streams_per_connection must be > 0")
    ELSE IF self.quic.idle_timeout_ms < MinIdleTimeoutMs
      THEN Bail("idle_timeout_ms must be >= 1000 for stable connections")
    ELSE [done |-> TRUE, ok |-> TRUE, err |-> ""]

\* A configuration as toml::from_str hands it to validate (from_file, lines
\* 154-156), or as a caller sets its pub fields.
ConfigInit ==
    /\ dcdnConfig \in DcdnConfigs
    /\ validateRes = NotValidated

\* The configuration of a specification about another component: never
\* validated.
ConfigIdle ==
    /\ dcdnConfig = IdleConfig
    /\ validateRes = NotValidated

\* config.validate()
ConfigValidate ==
    /\ ~validateRes.done
    /\ validateRes' = Validate(dcdnConfig)
    /\ UNCHANGED <<configOthers, dcdnConfig>>

ConfigNext == ConfigValidate

(***************************************************************************)
(* Cache (cache.rs): the shard cache                                        *)
(***************************************************************************)
FileHashes == 0..MaxFileHash
ShardIndexes == 0..MaxShardIndex
ShardSizes == 0..MaxShardLen

\* format!("{}:{}", file_hash, shard_index): the text after the last ':' is
\* the decimal shard index and the text before it the file hash, so two
\* calls build the same key exactly when both arguments agree.
ShardKey(file_hash, shard_index) == <<file_hash, shard_index>>

\* CacheStats as Cache::new builds it (the manifest counters are left out).
NewCacheStats == [shard_hits |-> 0, shard_misses |-> 0, total_shards_cached |-> 0,
                  cache_size_bytes |-> 0]

\* shard_cache is the LruCache as a sequence of [key, size] entries, the
\* least recently used entry first.
LruContains(cache, key) == \E i \in 1..Len(cache) : cache[i].key = key
LruWithout(cache, key) == SelectSeq(cache, LAMBDA en : en.key # key)

\* LruCache::put: an entry of the same key is replaced and becomes the most
\* recently used; a new key in a full cache drops the least recently used.
LruPut(cache, cap, key, size) ==
    LET entry == [key |-> key, size |-> size]
    IN  IF LruContains(cache, key) THEN Append(LruWithout(cache, key), entry)
        ELSE IF Len(cache) = cap THEN Append(Tail(cache), entry)
        ELSE Append(cache, entry)

\* LruCache::get: a hit makes the entry the most recently used.
LruGet(cache, key) ==
    IF LruContains(cache, key)
    THEN LET i == CHOOSE j \in 1..Len(cache) : cache[j].key = key
         IN  Append(LruWithout(cache, key), cache[i])
    ELSE cache

\* evict_to_fit, the while loop: pop_lru until target_space is freed or the
\* cache is empty; yields the cache and stats.cache_size_bytes it leaves.
RECURSIVE EvictLoop(_, _, _, _)
EvictLoop(cache, size_bytes, freed_space, target_space) ==
    IF freed_space < target_space /\ Len(cache) > 0
    THEN LET evicted_size == Head(cache).size
             \* stats.cache_size_bytes.saturating_sub(evicted_size)
             left == IF size_bytes >= evicted_size THEN size_bytes - evicted_size
                     ELSE 0
         IN  EvictLoop(Tail(cache), left, freed_space + evicted_size, target_space)
    ELSE [cache |-> cache, cache_size_bytes |-> size_bytes]

\* evict_to_fit(required_space)
EvictToFit(cache, size_bytes, required_space, max_size) ==
    EvictLoop(cache, size_bytes, 0, required_space + (max_size \div EvictExtraDivisor))

\* Cache::new(cache_dir, max_entries, max_size_bytes)
CacheInit ==
    /\ cacheConfig \in [max_entries : 1..MaxCacheEntries,
                        max_cache_size : 0..MaxCacheSize]
    /\ shard_cache = << >>
    /\ cacheStats = NewCacheStats

\* The cache of a specification about another component: never used.
CacheIdle ==
    /\ cacheConfig = [max_entries |-> 1, max_cache_size |-> 0]
    /\ shard_cache = << >>
    /\ cacheStats = NewCacheStats

\* put_shard(file_hash, shard_index, data), data_size = data.len()
PutShard(file_hash, shard_index, data_size) ==
    /\ cacheStats.cache_size_bytes + data_size <= MaxCacheBytes
    /\ LET key == ShardKey(file_hash, shard_index)
           current_size == cacheStats.cache_size_bytes
           fitted == IF current_size + data_size > cacheConfig.max_cache_size
                     THEN EvictToFit(shard_cache, current_size, data_size,
                                     cacheConfig.max_cache_size)
                     ELSE [cache |-> shard_cache, cache_size_bytes |-> current_size]
           cache == LruPut(fitted.cache, cacheConfig.max_entries, key, data_size)
       IN  /\ shard_cache' = cache
           /\ cacheStats' = [cacheStats EXCEPT
                                !.total_shards_cached = Len(cache),
                                !.cache_size_bytes = fitted.cache_size_bytes + data_size]
    /\ UNCHANGED <<cacheOthers, cacheConfig>>

\* get_shard(file_hash, shard_index)
GetShard(file_hash, shard_index) ==
    /\ cacheStats.shard_hits + cacheStats.shard_misses < MaxCacheGets
    /\ LET key == ShardKey(file_hash, shard_index)
       IN  /\ shard_cache' = LruGet(shard_cache, key)
           /\ cacheStats' =
                  IF LruContains(shard_cache, key)
                  THEN [cacheStats EXCEPT !.shard_hits = @ + 1]
                  ELSE [cacheStats EXCEPT !.shard_misses = @ + 1]
    /\ UNCHANGED <<cacheOthers, cacheConfig>>

\* clear_shards
ClearShards ==
    /\ shard_cache' = << >>
    /\ cacheStats' = [cacheStats EXCEPT !.total_shards_cached = 0,
                                        !.cache_size_bytes = 0]
    /\ UNCHANGED <<cacheOthers, cacheConfig>>

CacheNext ==
    \/ \E h \in FileHashes, i \in ShardIndexes, n \in ShardSizes : PutShard(h, i, n)
    \/ \E h \in FileHashes, i \in ShardIndexes : GetShard(h, i)
    \/ ClearShards

(***************************************************************************)
(* Metering (compute/metering.rs)                                           *)
(***************************************************************************)
\* ResourceLimits of the meter: the three caps the metered operations check.
LimitValues == [max_memory_bytes : 0..MaxLimit, max_cpu_cycles : 0..MaxLimit,
                max_execution_time_ms : 0..MaxLimit]

\* The last completed metered operation: what it returned, the usage it
\* compared with which cap, and the interrupt flag as it was when the
\* operation was called and when it returned.
NoMeterOp == [op |-> "none", result |-> "none", used |-> 0, limit |-> 0,
              flagBefore |-> FALSE, flagAfter |-> FALSE]
\* A thread that is not inside free_memory.
NoFree == [step |-> "idle", amount |-> 0]

MeterDone(op, result, used, limit, flag) ==
    mres' = [op |-> op, result |-> result, used |-> used, limit |-> limit,
             flagBefore |-> interrupted, flagAfter |-> flag]

\* Metering::new
MeterInit ==
    /\ limits \in LimitValues
    /\ memory_bytes = 0
    /\ cpu_cycles = 0
    /\ elapsed_ms = 0
    /\ interrupted = FALSE
    /\ mres = NoMeterOp
    /\ mfree = [t \in Threads |-> NoFree]

\* The meter of a specification about another component: never used.
MeterIdle == MeterInit /\ limits = [max_memory_bytes |-> 0, max_cpu_cycles |-> 0,
                                    max_execution_time_ms |-> 0]

\* Metering::start: resets the counters, the start time and the flag.
MeterStart ==
    /\ memory_bytes' = 0
    /\ cpu_cycles' = 0
    /\ elapsed_ms' = 0
    /\ interrupted' = FALSE
    /\ mres' = NoMeterOp
    /\ UNCHANGED <<meterOthers, limits>>

\* add_memory that reports the overrun without interrupting.
AddMemory_NoInterrupt(bytes) ==
    /\ memory_bytes + bytes <= MaxUsage
    /\ LET new_usage == memory_bytes + bytes
       IN  /\ memory_bytes' = new_usage
           /\ IF new_usage > limits.max_memory_bytes
              THEN MeterDone("add_memory", "MemoryLimitExceeded", new_usage,
                             limits.max_memory_bytes, interrupted)
              ELSE MeterDone("add_memory", "Ok", new_usage,
                             limits.max_memory_bytes, interrupted)
    /\ UNCHANGED <<meterOthers, limits, cpu_cycles, elapsed_ms, interrupted>>

\* Metering::add_memory(bytes)
AddMemory(bytes) ==
    /\ memory_bytes + bytes <= MaxUsage
    /\ LET new_usage == memory_bytes + bytes
       IN  /\ memory_bytes' = new_usage
           /\ IF new_usage > limits.max_memory_bytes
              THEN /\ interrupted' = TRUE
                   /\ MeterDone("add_memory", "MemoryLimitExceeded", new_usage,
                                limits.max_memory_bytes, TRUE)
              ELSE /\ UNCHANGED interrupted
                   /\ MeterDone("add_memory", "Ok", new_usage,
                                limits.max_memory_bytes, interrupted)
    /\ UNCHANGED <<meterOthers, limits, cpu_cycles, elapsed_ms>>

\* Metering::free_memory(bytes)
FreeMemory(bytes) ==
    /\ memory_bytes' = memory_bytes - Min(bytes, memory_bytes)
    /\ UNCHANGED <<meterOthers, limits, cpu_cycles, elapsed_ms, interrupted, mres>>

\* Metering::add_cycles(cycles)
AddCycles(cycles) ==
    /\ cpu_cycles + cycles <= MaxUsage
    /\ LET new_cycles == cpu_cycles + cycles
       IN  /\ cpu_cycles' = new_cycles
           /\ IF new_cycles > limits.max_cpu_cycles
              THEN /\ interrupted' = TRUE
                   /\ MeterDone("add_cycles", "CpuLimitExceeded", new_cycles,
                                limits.max_cpu_cycles, TRUE)
              ELSE /\ UNCHANGED interrupted
                   /\ MeterDone("add_cycles", "Ok", new_cycles,
                                limits.max_cpu_cycles, interrupted)
    /\ UNCHANGED <<meterOthers, limits, memory_bytes, elapsed_ms>>

\* Metering::check_time
CheckTime ==
    /\ IF elapsed_ms > limits.max_execution_time_ms
       THEN /\ interrupted' = TRUE
            /\ MeterDone("check_time", "TimeLimitExceeded", elapsed_ms,
                         limits.max_execution_time_ms, TRUE)
       ELSE /\ UNCHANGED interrupted
            /\ MeterDone("check_time", "Ok", elapsed_ms,
                         limits.max_execution_time_ms, interrupted)
    /\ UNCHANGED <<meterOthers, limits, memory_bytes, cpu_cycles, elapsed_ms>>

\* Metering::check_all: check_time()?, then the interrupt flag.
CheckAll ==
    /\ IF elapsed_ms > limits.max_execution_time_ms
       THEN /\ interrupted' = TRUE
            /\ MeterDone("check_all", "TimeLimitExceeded", elapsed_ms,
                         limits.max_execution_time_ms, TRUE)
       ELSE /\ UNCHANGED interrupted
            /\ MeterDone("check_all", IF interrupted THEN "Interrupted" ELSE "Ok",
                         elapsed_ms, limits.max_execution_time_ms, interrupted)
    /\ UNCHANGED <<meterOthers, limits, memory_bytes, cpu_cycles, elapsed_ms>>

\* Metering::interrupt
Interrupt ==
    /\ interrupted' = TRUE
    /\ UNCHANGED <<meterOthers, limits, memory_bytes, cpu_cycles, elapsed_ms, mres>>

\* start_time.elapsed() grows as time passes.
TimePasses ==
    /\ elapsed_ms < MaxElapsed
    /\ elapsed_ms' = elapsed_ms + 1
    /\ UNCHANGED <<meterOthers, limits, memory_bytes, cpu_cycles, interrupted, mres>>

MeterNext ==
    \/ MeterStart
    \/ \E bytes \in 0..MaxAmount : AddMemory(bytes)
    \/ \E bytes \in 0..MaxAmount : FreeMemory(bytes)
    \/ \E cycles \in 0..MaxAmount : AddCycles(cycles)
    \/ CheckTime
    \/ CheckAll
    \/ Interrupt
    \/ TimePasses

\* free_memory called by concurrent threads. memory_bytes is an AtomicU64;
\* the model keeps it as the integer the additions and subtractions sum to,
\* so a negative value n stands for the wrapped counter 2^64 + n. The steps
\* below stop once the counter has wrapped.
\* free_memory, the argument of fetch_sub:
\* bytes.min(self.memory_bytes.load(SeqCst))
FreeLoad(t, bytes) ==
    /\ mfree[t].step = "idle"
    /\ memory_bytes >= 0
    /\ mfree' = [mfree EXCEPT ![t] = [step |-> "f_sub",
                                      amount |-> Min(bytes, memory_bytes)]]
    /\ UNCHANGED <<freeOthers, limits, memory_bytes, cpu_cycles, elapsed_ms,
                   interrupted, mres>>

\* free_memory: self.memory_bytes.fetch_sub(.., SeqCst)
FreeSub(t) ==
    /\ mfree[t].step = "f_sub"
    /\ memory_bytes >= 0
    /\ memory_bytes' = memory_bytes - mfree[t].amount
    /\ mfree' = [mfree EXCEPT ![t] = NoFree]
    /\ UNCHANGED <<freeOthers, limits, cpu_cycles, elapsed_ms, interrupted, mres>>

\* add_memory and free_memory called by concurrent threads on one meter.
MeterConcNext ==
    \/ \E bytes \in 0..MaxAmount : memory_bytes >= 0 /\ AddMemory(bytes)
    \/ \E t \in Threads, bytes \in 0..MaxAmount : FreeLoad(t, bytes)
    \/ \E t \in Threads : FreeSub(t)


(***************************************************************************)
(* ComputeEngine (compute/mod.rs)                                           *)
(***************************************************************************)
Tasks == 1..MaxTasks
TerminalStatuses == {"Completed", "Failed", "Timeout", "Cancelled"}

\* A thread outside any ComputeEngine call.
NoEngineCall == [op |-> "none", task |-> 0, fails |-> FALSE]

\* ComputeEngine::new, and the tasks of a job before any is assigned.
EngineInit ==
    /\ sandboxLock = 0
    /\ epc = [t \in Threads |-> "idle"]
    /\ ecall = [t \in Threads |-> NoEngineCall]
    /\ taskStatus = [k \in Tasks |-> "Pending"]

\* The task is handed to a worker.
TaskAssign(k) ==
    /\ taskStatus[k] = "Pending"
    /\ taskStatus' = [taskStatus EXCEPT ![k] = "Assigned"]
    /\ UNCHANGED <<engineOthers, sandboxLock, epc, ecall>>

\* process_task called for a task whatever its status.
ProcessTask_AnyStatus(t, k, fails) ==
    /\ epc[t] = "idle"
    /\ taskStatus[k] \notin TerminalStatuses
    /\ \A u \in Threads : ecall[u].task # k
    /\ epc' = [epc EXCEPT ![t] = "lock"]
    /\ ecall' = [ecall EXCEPT ![t] = [op |-> "process_task", task |-> k, fails |-> fails]]
    /\ taskStatus' = [taskStatus EXCEPT ![k] = "Computing"]
    /\ UNCHANGED <<engineOthers, sandboxLock>>

\* process_task(task) is called by the worker the task was assigned to; the
\* task is Computing from here on.  fails tells whether sandbox.execute will
\* return Err for this task.
ProcessTask(t, k, fails) ==
    /\ epc[t] = "idle"
    /\ taskStatus[k] = "Assigned"
    /\ epc' = [epc EXCEPT ![t] = "lock"]
    /\ ecall' = [ecall EXCEPT ![t] = [op |-> "process_task", task |-> k, fails |-> fails]]
    /\ taskStatus' = [taskStatus EXCEPT ![k] = "Computing"]
    /\ UNCHANGED <<engineOthers, sandboxLock>>

\* split_data(job, data) or merge_results(job, results) is called.
JobCall(t, op, fails) ==
    /\ epc[t] = "idle"
    /\ epc' = [epc EXCEPT ![t] = "lock"]
    /\ ecall' = [ecall EXCEPT ![t] = [op |-> op, task |-> 0, fails |-> fails]]
    /\ UNCHANGED <<engineOthers, sandboxLock, taskStatus>>

\* self.sandbox.read(): a shared guard, which does not wait for a holder.
SandboxWrite_Shared(t) ==
    /\ epc[t] = "lock"
    /\ sandboxLock' = t
    /\ epc' = [epc EXCEPT ![t] = "execute"]
    /\ UNCHANGED <<engineOthers, ecall, taskStatus>>

\* let sandbox = self.sandbox.write().await: waits until no guard is held.
SandboxWrite(t) ==
    /\ epc[t] = "lock"
    /\ sandboxLock = 0
    /\ sandboxLock' = t
    /\ epc' = [epc EXCEPT ![t] = "execute"]
    /\ UNCHANGED <<engineOthers, ecall, taskStatus>>

\* sandbox.execute(..)? followed by drop(sandbox): the guard is released on
\* both outcomes.  split_data and merge_results return after it;
\* process_task goes on to the result's verification (or returns the Err).
SandboxExecute(t) ==
    /\ epc[t] = "execute"
    /\ sandboxLock' = IF sandboxLock = t THEN 0 ELSE sandboxLock
    /\ IF ecall[t].op = "process_task"
       THEN /\ epc' = [epc EXCEPT ![t] = "verify"]
            /\ taskStatus' = [taskStatus EXCEPT ![ecall[t].task] = "Verifying"]
            /\ UNCHANGED ecall
       ELSE /\ epc' = [epc EXCEPT ![t] = "idle"]
            /\ ecall' = [ecall EXCEPT ![t] = NoEngineCall]
            /\ UNCHANGED taskStatus
    /\ UNCHANGED engineOthers

\* The end of process_task: Ok(TaskResult {status: Completed, ..}) after
\* hash_result and create_merkle_proof, or the Err; the task ends in the
\* terminal status s.
TaskFinish(t, s) ==
    /\ epc[t] = "verify"
    /\ s = "Completed" => ~ecall[t].fails
    /\ taskStatus' = [taskStatus EXCEPT ![ecall[t].task] = s]
    /\ epc' = [epc EXCEPT ![t] = "idle"]
    /\ ecall' = [ecall EXCEPT ![t] = NoEngineCall]
    /\ UNCHANGED <<engineOthers, sandboxLock>>

EngineNext ==
    \/ \E k \in Tasks : TaskAssign(k)
    \/ \E t \in Threads, k \in Tasks, fails \in BOOLEAN : ProcessTask(t, k, fails)
    \/ \E t \in Threads, op \in {"split_data", "merge_results"}, fails \in BOOLEAN :
          JobCall(t, op, fails)
    \/ \E t \in Threads : SandboxWrite(t)
    \/ \E t \in Threads : SandboxExecute(t)
    \/ \E t \in Threads, s \in TerminalStatuses : TaskFinish(t, s)

(***************************************************************************)
(* MerkleTree (compute/verification.rs)                                     *)
(***************************************************************************)
\* SHA-256 in hex, as a collision-free function of the hashed bytes: the
\* digest is the input between two marks (8, 9) that no input byte equals,
\* so that a concatenation of digests parses in one way only, as a
\* concatenation of 64-character hex strings does.
Sha256Hex(bytes) == <<8>> \o bytes \o <<9>>

\* MerkleTree::hash_data and hash_string
HashData(data) == Sha256Hex(data)
HashString(s) == Sha256Hex(s)

\* The chunks a tree is built from.
LeafValues == {<<0>>, <<1>>}
RECURSIVE LeafLists(_)
LeafLists(n) ==
    IF n = 0 THEN {<< >>}
    ELSE LeafLists(n - 1)
            \cup {Append(l, c) : l \in {x \in LeafLists(n - 1) : Len(x) = n - 1},
                                 c \in LeafValues}

NoTree == [built |-> FALSE, root |-> << >>, nodes |-> << >>, leaf_count |-> 0,
           level_sizes |-> << >>]
NoProof == [done |-> FALSE, leaf_index |-> 0, ok |-> FALSE, proof |-> << >>,
            checked |-> FALSE, verified |-> FALSE]

\* The while loop of MerkleTree::build: one level per round.  Indices are
\* the code's (from 0); nodes[i] of the code is nodes[i + 1] here.
RECURSIVE BuildLevels(_, _, _, _)
BuildLevels(nodes, level_sizes, level_start, level_size) ==
    IF level_size <= 1
    THEN [built |-> TRUE, root |-> nodes[Len(nodes)], nodes |-> nodes,
          leaf_count |-> 0, level_sizes |-> Append(level_sizes, 1)]
    ELSE LET level_end == level_start + level_size
             padded == IF level_size % 2 = 1
                       THEN Append(nodes, nodes[level_end]) ELSE nodes
             size == IF level_size % 2 = 1 THEN level_size + 1 ELSE level_size
             RECURSIVE Pairs(_, _)
             Pairs(acc, i) ==
                 IF i >= level_start + size THEN acc
                 ELSE Pairs(Append(acc, HashString(acc[i + 1] \o acc[i + 2])), i + 2)
         IN  BuildLevels(Pairs(padded, level_start), Append(level_sizes, size),
                         level_end + (size - level_size), size \div 2)

\* MerkleTree::build(chunks)
Build(chunks) ==
    IF chunks = << >> THEN [NoTree EXCEPT !.built = TRUE]
    ELSE LET leaves == [i \in 1..Len(chunks) |-> HashData(chunks[i])]
         IN  [BuildLevels(leaves, << >>, 0, Len(leaves))
                 EXCEPT !.leaf_count = Len(chunks)]

\* The for loop of get_proof over all levels but the last.
\* (idx is the code's index)
RECURSIVE ProofLevels(_, _, _, _, _)
ProofLevels(tree, l, idx, level_start, proof) ==
    IF l > Len(tree.level_sizes) - 1 THEN proof
    ELSE LET level_size == tree.level_sizes[l]
             sibling_index == IF idx % 2 = 0 THEN idx + 1 ELSE idx - 1
             node_index == level_start + sibling_index
         IN  ProofLevels(tree, l + 1, idx \div 2, level_start + level_size,
                 IF node_index < Len(tree.nodes) /\ sibling_index < level_size
                 THEN Append(proof, tree.nodes[node_index + 1]) ELSE proof)

\* MerkleTree::get_proof(leaf_index)
GetProof(tree, leaf_index) ==
    IF leaf_index >= tree.leaf_count THEN [ok |-> FALSE, proof |-> << >>]
    ELSE IF tree.level_sizes = << >> THEN [ok |-> TRUE, proof |-> << >>]
    ELSE [ok |-> TRUE, proof |-> ProofLevels(tree, 1, leaf_index, 0, << >>)]

\* verify_proof that puts the running hash on the left at every level.
RECURSIVE FoldProof_LeftOnly(_, _, _, _)
FoldProof_LeftOnly(hash, idx, proof, n) ==
    IF n > Len(proof) THEN hash
    ELSE FoldProof_LeftOnly(HashString(hash \o proof[n]), idx \div 2, proof, n + 1)

\* The for loop of verify_proof: the hash after the siblings from the n-th on.
RECURSIVE FoldProof(_, _, _, _)
FoldProof(hash, idx, proof, n) ==
    IF n > Len(proof) THEN hash
    ELSE FoldProof(IF idx % 2 = 0 THEN HashString(hash \o proof[n])
                                    ELSE HashString(proof[n] \o hash),
                   idx \div 2, proof, n + 1)

\* MerkleTree::verify_proof(root, leaf_data, leaf_index, proof)
VerifyProof(root, leaf_data, leaf_index, proof) ==
    FoldProof(HashData(leaf_data), leaf_index, proof, 1) = root

\* The chunks handed to MerkleTree::build; nothing built yet.
MerkleInit ==
    /\ merkleChunks \in LeafLists(MaxLeaves)
    /\ merkleTree = NoTree
    /\ proofRes = NoProof

\* The Merkle tree of a specification about another component: never used.
MerkleIdle == MerkleInit /\ merkleChunks = << >>

\* tree = MerkleTree::build(&chunks)
MerkleBuild ==
    /\ ~merkleTree.built
    /\ merkleTree' = Build(merkleChunks)
    /\ UNCHANGED <<merkleOthers, merkleChunks, proofRes>>

\* proof = tree.get_proof(leaf_index)
MerkleGetProof(leaf_index) ==
    /\ merkleTree.built
    /\ LET res == GetProof(merkleTree, leaf_index)
       IN  proofRes' = [NoProof EXCEPT !.done = TRUE, !.leaf_index = leaf_index,
                                       !.ok = res.ok, !.proof = res.proof]
    /\ UNCHANGED <<merkleOthers, merkleChunks, merkleTree>>

\* MerkleTree::verify_proof(tree.root(), &chunks[leaf_index], leaf_index, &proof)
MerkleVerifyProof ==
    /\ proofRes.done /\ proofRes.ok /\ ~proofRes.checked
    /\ proofRes' = [proofRes EXCEPT
          !.checked = TRUE,
          !.verified = VerifyProof(merkleTree.root,
                                   merkleChunks[proofRes.leaf_index + 1],
                                   proofRes.leaf_index, proofRes.proof)]
    /\ UNCHANGED <<merkleOthers, merkleChunks, merkleTree>>

MerkleNext ==
    \/ MerkleBuild
    \/ \E leaf_index \in 0..MaxLeaves : MerkleGetProof(leaf_index)
    \/ MerkleVerifyProof

(***************************************************************************)
(* WasmSandbox (compute/sandbox.rs)                                         *)
(***************************************************************************)
\* Byte strings of up to n bytes over the given byte values.
ByteStrings(values, n) == UNION {[1..l -> values] : l \in 0..n}

\* The modules handed to the sandbox: empty, "\0asm" with version 1 (and
\* with a byte of code after it), a module cut after the magic, a wrong
\* version, a wrong magic, and a few bytes that are no WASM at all.
Modules ==
    { << >>,
      <<0, 97, 115, 109, 1, 0, 0, 0>>,
      <<0, 97, 115, 109, 1, 0, 0, 0, 7>>,
      <<0, 97, 115, 109>>,
      <<0, 97, 115, 109, 2, 0, 0, 0>>,
      <<1, 97, 115, 109, 1, 0, 0, 0>>,
      <<116, 101, 115, 116>> }

NoCall == [done |-> FALSE, ok |-> FALSE, bytes |-> << >>]
NoSandboxCall == [call |-> "none", module |-> << >>, ok |-> FALSE,
                  cacheBefore |-> {}, cacheAfter |-> {}]

\* slice::chunks(size): consecutive pieces of size bytes, the last one shorter.
RECURSIVE Chunks(_, _)
Chunks(data, size) ==
    IF data = << >> THEN << >>
    ELSE IF Len(data) <= size THEN <<data>>
    ELSE <<SubSeq(data, 1, size)>> \o Chunks(SubSeq(data, size + 1, Len(data)), size)

\* The frame writer: the u32 count of chunks, then every chunk after its
\* u32 length, all little-endian.
RECURSIVE LengthPrefixed(_)
LengthPrefixed(chunks) ==
    IF chunks = << >> THEN << >>
    ELSE U32ToLeBytes(Len(Head(chunks))) \o Head(chunks) \o LengthPrefixed(Tail(chunks))
WriteFrame(chunks) == U32ToLeBytes(Len(chunks)) \o LengthPrefixed(chunks)

\* The frame reader's loop: the n records from offset on (offset counts from
\* 0 as in the code), or the truncation error.
RECURSIVE ReadRecords(_, _, _)
ReadRecords(data, offset, n) ==
    IF n = 0 THEN [ok |-> TRUE, chunks |-> << >>]
    ELSE IF offset + 4 > Len(data) THEN [ok |-> FALSE, chunks |-> << >>]
    ELSE LET chunk_len == U32FromLeBytes(SubSeq(data, offset + 1, offset + 4))
         IN  IF offset + 4 + chunk_len > Len(data)
             THEN [ok |-> FALSE, chunks |-> << >>]
             ELSE LET rest == ReadRecords(data, offset + 4 + chunk_len, n - 1)
                  IN  [ok |-> rest.ok,
                       chunks |-> IF rest.ok
                                  THEN <<SubSeq(data, offset + 5, offset + 4 + chunk_len)>>
                                          \o rest.chunks
                                  ELSE << >>]

\* WasmSandbox::simulate_split
SimulateSplit(data) ==
    IF data = << >> THEN Ok(<< >>)
    ELSE LET len == Len(data)
             quarter == IF len \div 4 >= SplitChunkBytes THEN len \div 4
                        ELSE SplitChunkBytes
             chunk_size == IF quarter <= len THEN quarter ELSE len
         IN  Ok(WriteFrame(Chunks(data, chunk_size)))

\* WasmSandbox::simulate_merge
SimulateMerge(data) ==
    IF Len(data) < 4 THEN Err
    ELSE LET records == ReadRecords(data, 4, U32FromLeBytes(SubSeq(data, 1, 4)))
         IN  IF records.ok THEN Ok(Concat(records.chunks)) ELSE Err

\* WasmSandbox::execute (execute_with_tunnel without a tunnel) and
\* simulate_execution.
Execute(wasm_module, input_data, function_name) ==
    IF wasm_module = << >> THEN Err
    ELSE IF Len(input_data) > MaxMemoryBytes THEN Err
    ELSE CASE function_name = "split" -> SimulateSplit(input_data)
           [] function_name = "merge" -> SimulateMerge(input_data)
           [] function_name = "execute" ->
                 IF simulation_mode THEN Ok(input_data) ELSE Err
           [] OTHER -> Err

\* WasmSandbox::validate_module
ValidateModule(bytes) ==
    IF Len(bytes) < 8 THEN FALSE
    ELSE LET is_wasm == bytes[1] = 0 /\ bytes[2] = 97 /\ bytes[3] = 115 /\ bytes[4] = 109
             valid_version == bytes[5] = 1 /\ bytes[6] = 0 /\ bytes[7] = 0 /\ bytes[8] = 0
         IN  is_wasm /\ valid_version

\* WasmSandbox::new
SandboxInit ==
    /\ module_cache = {}
    /\ simulation_mode \in BOOLEAN
    /\ sbData \in ByteStrings({0, 1}, MaxData)
    /\ sbSplit = NoCall
    /\ sbMerged = NoCall
    /\ sbLast = NoSandboxCall

\* The sandbox of a specification about another component: never used.
SandboxIdle == SandboxInit /\ simulation_mode = FALSE /\ sbData = << >>

\* The call that has just returned, with the cache it found and left.
SandboxCalled(call, wasm_module, ok, cache) ==
    sbLast' = [call |-> call, module |-> wasm_module, ok |-> ok,
               cacheBefore |-> module_cache, cacheAfter |-> cache]

\* split = sandbox.execute(module, data, "split")
SandboxSplit(wasm_module) ==
    /\ LET res == Execute(wasm_module, sbData, "split")
       IN  /\ sbSplit' = [done |-> TRUE, ok |-> res.ok, bytes |-> res.bytes]
           /\ SandboxCalled("execute", wasm_module, res.ok, module_cache)
    /\ sbMerged' = NoCall
    /\ UNCHANGED <<sandboxOthers, module_cache, simulation_mode, sbData>>

\* merged = sandbox.execute(module, &split, "merge")
SandboxMerge(wasm_module) ==
    /\ sbSplit.done /\ sbSplit.ok
    /\ LET res == Execute(wasm_module, sbSplit.bytes, "merge")
       IN  /\ sbMerged' = [done |-> TRUE, ok |-> res.ok, bytes |-> res.bytes]
           /\ SandboxCalled("execute", wasm_module, res.ok, module_cache)
    /\ UNCHANGED <<sandboxOthers, module_cache, simulation_mode, sbData, sbSplit>>

\* sandbox.execute(module, data, function_name) for the other functions
SandboxRun(wasm_module, function_name) ==
    /\ SandboxCalled("execute", wasm_module,
                     Execute(wasm_module, sbData, function_name).ok, module_cache)
    /\ UNCHANGED <<sandboxOthers, module_cache, simulation_mode, sbData, sbSplit,
                   sbMerged>>

\* WasmSandbox::load_module: the cache is keyed by the module's SHA-256.
LoadModule(wasm_bytes) ==
    /\ LET hash == Sha256Hex(wasm_bytes)
       IN  IF hash \notin module_cache
           THEN IF ~ValidateModule(wasm_bytes)
                THEN /\ UNCHANGED module_cache
                     /\ SandboxCalled("load_module", wasm_bytes, FALSE, module_cache)
                ELSE /\ module_cache' = module_cache \cup {hash}
                     /\ SandboxCalled("load_module", wasm_bytes, TRUE,
                                      module_cache \cup {hash})
           ELSE /\ UNCHANGED module_cache
                /\ SandboxCalled("load_module", wasm_bytes, TRUE, module_cache)
    /\ UNCHANGED <<sandboxOthers, simulation_mode, sbData, sbSplit, sbMerged>>

\* WasmSandbox::clear_cache
ClearCache ==
    /\ module_cache' = {}
    /\ UNCHANGED <<sandboxOthers, simulation_mode, sbData, sbSplit, sbMerged, sbLast>>

SandboxNext ==
    \/ \E wasm_module \in Modules \ {<< >>} : SandboxSplit(wasm_module)
    \/ \E wasm_module \in Modules \ {<< >>} : SandboxMerge(wasm_module)
    \/ \E wasm_module \in Modules, function_name \in {"execute", "transform"} :
          SandboxRun(wasm_module, function_name)
    \/ \E wasm_bytes \in Modules : LoadModule(wasm_bytes)
    \/ ClearCache

(***************************************************************************)
(* ComputeExecutor (compute/executor.rs)                                    *)
(***************************************************************************)

\* The job settings (min_chunk_size, max_chunk_size) of a split.
Jobs == [min_chunk_size : 0..MaxChunkSetting, max_chunk_size : 0..MaxChunkSetting]
IdleJob == [min_chunk_size |-> 0, max_chunk_size |-> 0]

\* The inputs of a split: one per length, every byte naming its position.
SplitInputs == {[i \in 1..l |-> i] : l \in 0..MaxSplitLen}

\* The chunk lists handed to serialize_chunks.
ChunkLists == UNION {[1..n -> ByteStrings({0, 1}, MaxChunkLen)] : n \in 0..MaxChunks}

\* The byte strings handed to deserialize_chunks: a count, then records whose
\* declared length is the payload's or one more, as many records as the
\* count says or not; and the strings too short for a count.
FrameRecords ==
    {U32ToLeBytes(Len(p) + extra) \o p :
        p \in ByteStrings({0, 1}, MaxChunkLen), extra \in {0, 1}}
Frames ==
    {U32ToLeBytes(n) \o Concat(recs) :
        n \in 0..MaxChunks,
        recs \in UNION {[1..r -> FrameRecords] : r \in 0..MaxChunks}}
    \cup ByteStrings({0}, 3)

NoSplit == [done |-> FALSE, panicked |-> FALSE, chunk_size |-> 0,
            chunks |-> << >>, infos |-> << >>]

\* ComputeExecutor::calculate_chunk_size.  Ord::clamp asserts min <= max and
\* panics otherwise.
CalculateChunkSize(min_size, max_size, data_size) ==
    LET target_chunks == 8
        calculated_size == data_size \div target_chunks
    IN  IF min_size > max_size
        THEN [panicked |-> TRUE, size |-> 0]
        ELSE LET clamped == IF calculated_size < min_size THEN min_size
                            ELSE IF calculated_size > max_size THEN max_size
                            ELSE calculated_size
             IN  [panicked |-> FALSE, size |-> IF clamped >= 1 THEN clamped ELSE 1]

\* ComputeExecutor::split_data
SplitData(job, data) ==
    LET chunk_size == CalculateChunkSize(job.min_chunk_size, job.max_chunk_size, Len(data))
    IN  IF chunk_size.panicked
        THEN [panicked |-> TRUE, chunk_size |-> 0, chunks |-> << >>, infos |-> << >>]
        ELSE LET chunks == Chunks(data, chunk_size.size)
             IN  [panicked |-> FALSE,
                  chunk_size |-> chunk_size.size,
                  chunks |-> chunks,
                  infos |-> [i \in 1..Len(chunks) |->
                               [index |-> i - 1,
                                size |-> Len(chunks[i]),
                                hash |-> Sha256Hex(chunks[i]),
                                status |-> "Pending",
                                assigned_worker |-> "None"]]]

\* serialize_chunks that leaves out the count of chunks.
SerializeChunks_NoCount(chunks) == Ok(LengthPrefixed(chunks))

\* ComputeExecutor::serialize_chunks
SerializeChunks(chunks) == Ok(U32ToLeBytes(Len(chunks)) \o LengthPrefixed(chunks))

\* ComputeExecutor::deserialize_chunks
DeserializeChunks(data) ==
    IF Len(data) < 4 THEN [ok |-> FALSE, chunks |-> << >>]
    ELSE LET num_chunks == U32FromLeBytes(SubSeq(data, 1, 4))
         IN  ReadRecords(data, 4, num_chunks)

\* What the codec is given or returns: a chunk list, a frame, or an error.
AsChunks(chunks) == [kind |-> "chunks", chunks |-> chunks, bytes |-> << >>]
AsFrame(bytes) == [kind |-> "frame", chunks |-> << >>, bytes |-> bytes]
CodecError == [kind |-> "error", chunks |-> << >>, bytes |-> << >>]

\* A job and its input, a chunk list, or a frame is given; nothing has been
\* called.  exLog starts with the codec's input.
ExecutorInit ==
    /\ exSplit = NoSplit
    /\ \/ exJob \in Jobs /\ exData \in SplitInputs /\ exLog = << >>
       \/ /\ exJob = IdleJob /\ exData = << >>
          /\ \/ \E chunks \in ChunkLists : exLog = <<AsChunks(chunks)>>
             \/ \E data \in Frames : exLog = <<AsFrame(data)>>

\* The executor of a specification about another component: never used.
ExecutorIdle ==
    exSplit = NoSplit /\ exJob = IdleJob /\ exData = << >> /\ exLog = << >>

\* (chunks, infos) = executor.split_data(&job, &data)
ExecutorSplit ==
    /\ exLog = << >>
    /\ LET res == SplitData(exJob, exData)
       IN  exSplit' = [done |-> TRUE, panicked |-> res.panicked,
                       chunk_size |-> res.chunk_size, chunks |-> res.chunks,
                       infos |-> res.infos]
    /\ UNCHANGED <<executorOthers, exJob, exData, exLog>>

\* serialized = executor.serialize_chunks(&chunks), of the chunk list at the
\* end of exLog.
ExecutorSerialize ==
    /\ exLog # << >> /\ Len(exLog) <= MaxCodecCalls
    /\ exLog[Len(exLog)].kind = "chunks"
    /\ LET res == SerializeChunks(exLog[Len(exLog)].chunks)
       IN  exLog' = Append(exLog, IF res.ok THEN AsFrame(res.bytes) ELSE CodecError)
    /\ UNCHANGED <<executorOthers, exJob, exData, exSplit>>

\* deserialized = executor.deserialize_chunks(&serialized), of the frame at
\* the end of exLog.
ExecutorDeserialize ==
    /\ exLog # << >> /\ Len(exLog) <= MaxCodecCalls
    /\ exLog[Len(exLog)].kind = "frame"
    /\ LET res == DeserializeChunks(exLog[Len(exLog)].bytes)
       IN  exLog' = Append(exLog, IF res.ok THEN AsChunks(res.chunks) ELSE CodecError)
    /\ UNCHANGED <<executorOthers, exJob, exData, exSplit>>

ExecutorNext ==
    \/ ExecutorSplit
    \/ ExecutorSerialize
    \/ ExecutorDeserialize

(***************************************************************************)
(* ResultVerifier (compute/verification.rs)                                 *)
(***************************************************************************)

VerificationModes == {"None", "Hash", "Merkle", "Redundancy"}

\* Option<T>
None == [some |-> FALSE, value |-> << >>]
Some(value) == [some |-> TRUE, value |-> value]

\* MerkleTree::from_data
FromData(data, chunk_size) ==
    Build(Chunks(data, IF chunk_size >= 1 THEN chunk_size ELSE 1))

\* ResultVerifier::hash_result
HashResult(data) == Sha256Hex(data)

\* The results handed to verify (result_data, merkle_proof) and the expected
\* hashes: none, the hash of some result data, or a string that is no hash.
ResultData == ByteStrings({0, 1}, MaxResultLen)
MerkleProofs ==
    {None, Some(<< >>)} \cup {Some(<<FromData(d, MerkleChunkBytes).root>>) : d \in ResultData}
TaskResults == [result_data : ResultData, merkle_proof : MerkleProofs]
ExpectedHashes == {None, Some(<<7>>)} \cup {Some(HashResult(d)) : d \in ResultData}

NoVerdict == [done |-> FALSE, result |-> [result_data |-> << >>, merkle_proof |-> None],
              expected_hash |-> None, verdict |-> "Skipped"]

\* ResultVerifier::verify
Verify(mode, result, expected_hash) ==
    CASE mode = "None" -> "Skipped"
      [] mode = "Hash" ->
            IF expected_hash.some
            THEN LET actual == HashResult(result.result_data)
                 IN  IF actual = expected_hash.value THEN "Valid" ELSE "Invalid"
            ELSE "Valid"
      [] mode = "Merkle" ->
            IF result.merkle_proof.some
            THEN LET proof == result.merkle_proof.value
                 IN  IF proof = << >> THEN "Invalid"
                     ELSE LET tree == FromData(result.result_data, MerkleChunkBytes)
                          IN  IF tree.root = proof[1] THEN "Valid" ELSE "Invalid"
            ELSE "Invalid"
      [] mode = "Redundancy" -> "Valid"

\* ResultVerifier::new(mode)
ResultVerifierInit ==
    /\ rvMode \in VerificationModes
    /\ rvRes = NoVerdict

\* The result verifier of a specification about another component: never used.
ResultVerifierIdle == rvMode = "Hash" /\ rvRes = NoVerdict

\* verification = verifier.verify(&result, expected_hash), once: verify keeps
\* no state.
ResultVerify(result, expected_hash) ==
    /\ ~rvRes.done
    /\ rvRes' = [done |-> TRUE, result |-> result, expected_hash |-> expected_hash,
                 verdict |-> Verify(rvMode, result, expected_hash)]
    /\ UNCHANGED <<resultVerifierOthers, rvMode>>

ResultVerifierNext ==
    \E result \in TaskResults, expected_hash \in ExpectedHashes :
        ResultVerify(result, expected_hash)

(***************************************************************************)
(* Specifications                                                           *)
(***************************************************************************)
\* The compute module of a specification about a DCDN component: never used.
\* The data path of a specification about another component: never used.
DataIdle == SandboxIdle /\ ExecutorIdle /\ ResultVerifierIdle

ComputeIdle == MeterIdle /\ EngineInit /\ MerkleIdle /\ DataIdle

\* The chunk store of a specification about another component: never used.
StoreIdle == StoreInit /\ StoreTtlIdle /\ capacity = 1

InitStore == StoreInit /\ StoreTtlIdle /\ FecIdle /\ VerIdle /\ P2PIdle /\ CesIdle /\ ConfigIdle /\ CacheIdle /\ ComputeIdle
SpecStore == InitStore /\ [][StoreNext]_vars

SpecStoreSeq == InitStore /\ [][StoreSeqNext]_vars

InitStoreTtl == StoreInit /\ StoreTtlInit /\ FecIdle /\ VerIdle /\ P2PIdle /\ CesIdle /\ ConfigIdle /\ CacheIdle /\ ComputeIdle
SpecStoreTtl == InitStoreTtl /\ [][StoreTtlNext]_vars

InitFec == FecInit /\ StoreIdle /\ VerIdle /\ P2PIdle /\ CesIdle /\ ConfigIdle /\ CacheIdle /\ ComputeIdle
SpecFec == InitFec /\ [][FecNext]_vars

InitVerifier == VerInit /\ StoreIdle /\ FecIdle /\ P2PIdle /\ CesIdle /\ ConfigIdle /\ CacheIdle /\ ComputeIdle
SpecVerifier == InitVerifier /\ [][VerNext]_vars

InitP2P == P2PInit /\ StoreIdle /\ FecIdle /\ VerIdle /\ CesIdle /\ ConfigIdle /\ CacheIdle /\ ComputeIdle
SpecP2P == InitP2P /\ [][P2PNext]_vars

SpecReaders == InitP2P /\ [][ReadersNext]_vars

InitUnchoke == UnchokeInit /\ StoreIdle /\ FecIdle /\ VerIdle /\ CesIdle /\ ConfigIdle /\ CacheIdle /\ ComputeIdle
SpecUnchoke == InitUnchoke /\ [][UnchokeNext]_vars

InitCes == CesInit /\ StoreIdle /\ FecIdle /\ VerIdle /\ P2PIdle /\ ConfigIdle /\ CacheIdle /\ ComputeIdle
SpecCes == InitCes /\ [][CesNext]_vars

\* The DCDN components of a specification about the compute module.
DcdnIdle == StoreIdle /\ FecIdle /\ VerIdle /\ P2PIdle /\ CesIdle /\ ConfigIdle /\ CacheIdle

InitConfig == ConfigInit /\ StoreIdle /\ FecIdle /\ VerIdle /\ P2PIdle /\ CesIdle /\ CacheIdle /\ ComputeIdle
SpecConfig == InitConfig /\ [][ConfigNext]_vars

InitCache == CacheInit /\ StoreIdle /\ FecIdle /\ VerIdle /\ P2PIdle /\ CesIdle /\ ConfigIdle /\ ComputeIdle
SpecCache == InitCache /\ [][CacheNext]_vars

InitMeter == MeterInit /\ DcdnIdle /\ EngineInit /\ MerkleIdle /\ DataIdle
SpecMeter == InitMeter /\ [][MeterNext]_vars
SpecMeterConc == InitMeter /\ [][MeterConcNext]_vars

InitEngine == EngineInit /\ DcdnIdle /\ MeterIdle /\ MerkleIdle /\ DataIdle
SpecEngine == InitEngine /\ [][EngineNext]_vars

InitMerkle == MerkleInit /\ DcdnIdle /\ MeterIdle /\ EngineInit /\ DataIdle
SpecMerkle == InitMerkle /\ [][MerkleNext]_vars

\* The components outside the data path, in a specification about it.
ControlIdle == DcdnIdle /\ MeterIdle /\ EngineInit /\ MerkleIdle

InitSandbox == SandboxInit /\ ControlIdle /\ ExecutorIdle /\ ResultVerifierIdle
SpecSandbox == InitSandbox /\ [][SandboxNext]_vars

InitExecutor == ExecutorInit /\ ControlIdle /\ SandboxIdle /\ ResultVerifierIdle
SpecExecutor == InitExecutor /\ [][ExecutorNext]_vars

InitResultVerifier == ResultVerifierInit /\ ControlIdle /\ SandboxIdle /\ ExecutorIdle
SpecResultVerifier == InitResultVerifier /\ [][ResultVerifierNext]_vars

(***************************************************************************)
(* ChunkStore: claims                                                       *)
(***************************************************************************)
\* C1: in every reachable state, under any interleaving of insert, remove
\* (and the removes evict_expired makes), every ChunkId in the index maps to a
\* slot that holds a chunk with that id.  The slot is looked at as a caller
\* would see it, through its lock: a slot another call has write-locked is
\* not judged.
C1_IndexedSlotHoldsId ==
    \A id \in DOMAIN index :
        SlotFree(index[id]) =>
            (slots[index[id]].some /\ slots[index[id]].id = id)

\* C2: a get(id) that runs concurrently with inserts and removes returns
\* nothing or a chunk whose id is the requested id.
C2_GetReturnsRequestedId ==
    \A t \in Threads :
        (sres[t].op = "get" /\ sres[t].chunk.some) => sres[t].chunk.id = sres[t].id

Distinct(s) == \A i, j \in DOMAIN s : i # j => s[i] # s[j]
Max(a, b) == IF a >= b THEN a ELSE b

\* C6: from an empty store of capacity N, after N+j sequential inserts of
\* distinct ids and no removal, exactly the j earliest ids are absent, the N
\* latest are retrievable (indexed, in a slot holding them, and returned by a
\* get), and evictions_total = j.
C6_RingEviction ==
    (spc[SeqCaller] = "idle" /\ Distinct(insLog) /\ Len(insLog) >= capacity) =>
        LET j == Len(insLog) - capacity IN
        /\ evictions_total = j
        /\ \A i \in 1..Len(insLog) :
              IF i <= j
                THEN insLog[i] \notin DOMAIN index
                ELSE /\ insLog[i] \in DOMAIN index
                     /\ slots[index[insLog[i]]] = SomeChunk(insLog[i], i - 1)
        /\ \A i \in 1..Len(insLog) :
              (sres[SeqCaller].op = "get" /\ sres[SeqCaller].id = insLog[i]) =>
                  sres[SeqCaller].chunk = (IF i <= j THEN NoChunk ELSE SomeChunk(insLog[i], i - 1))

\* C6 witness: capacity 2, three distinct ids inserted, and a get of the
\* earliest one has just missed.
C6_Witness ==
    /\ spc[SeqCaller] = "idle" /\ Distinct(insLog)
    /\ capacity > 1 /\ Len(insLog) = capacity + 1
    /\ evictions_total = 1
    /\ sres[SeqCaller] = [op |-> "get", id |-> insLog[1], chunk |-> NoChunk]

\* The next step of the call thread t is in, if it has one.
StoreStep(t) ==
    \/ InsertClearOld(t)
    \/ InsertFetchAdd(t)
    \/ InsertLockSlot(t)
    \/ InsertEvict(t)
    \/ InsertPut(t)
    \/ GetSlot(t)
    \/ RemoveTake(t)

\* C31: no interleaving of concurrent calls deadlocks: whenever calls are in
\* progress, at least one of them can take its next step.
C31_NoDeadlock ==
    (\E t \in Threads : spc[t] # "idle") =>
        \E t \in Threads : spc[t] # "idle" /\ ENABLED StoreStep(t)

\* The slots holding a chunk, and those holding a chunk of the given id.
LiveSlots(slts) == {i \in DOMAIN slts : slts[i].some}
Holders(slts, id) == {i \in LiveSlots(slts) : slts[i].id = id}

RECURSIVE LiveBytes(_, _)
LiveBytes(live, slts) ==
    IF live = {} THEN 0
    ELSE LET i == CHOOSE x \in live : TRUE
         IN  DataLen(slts[i]) + LiveBytes(live \ {i}, slts)

\* C26: when an insert of an id that was present at the call returns, exactly
\* one slot holds that id, the index maps the id to that slot, the slot holds
\* the chunk just inserted, and stats counts one chunk per live slot and the
\* bytes of the live slots only.
C26_ReinsertReplaces ==
    [][\A t \in Threads :
          (spc[t] = "ins_put" /\ spc'[t] = "idle" /\ slocal[t].found) =>
              LET id == slocal[t].id IN
              /\ Cardinality(Holders(slots', id)) = 1
              /\ id \in DOMAIN index'
              /\ index'[id] \in Holders(slots', id)
              /\ slots'[index'[id]].call = slocal[t].call
              /\ Stats(index', slots').chunk_count = Cardinality(LiveSlots(slots'))
              /\ Stats(index', slots').size_bytes = LiveBytes(LiveSlots(slots'), slots')]_vars

\* C32: whenever no call is in progress, every occupied slot's chunk id is
\* mapped by the index to that very slot.
C32_NoOrphanedCopy ==
    (\A t \in Threads : spc[t] = "idle") =>
        \A i \in LiveSlots(slots) :
            slots[i].id \in DOMAIN index /\ index[slots[i].id] = i

C27_ExpiredByInsertion ==
    [][(expiredRes' # expiredRes /\ expiredRes'.op = "list_expired") =>
          expiredRes'.ids =
              {id \in DOMAIN index :
                  /\ slots[index[id]].some
                  /\ chunkArgs[slots[index[id]].call].inserted_at < expiredRes'.now - chunk_ttl}]_vars

\* C27 amended: for a caller that is alone, list_expired(now) returns exactly
\* the ids of the chunks held in a slot whose timestamp is before
\* now - chunk_ttl.
C27_ExpiredByTimestamp ==
    [][(expiredRes' # expiredRes /\ expiredRes'.op = "list_expired") =>
          expiredRes'.ids =
              {slots[i].id : i \in {j \in LiveSlots(slots) :
                                      Timestamp(slots[j]) < expiredRes'.now - chunk_ttl}}]_vars

\* C27 witness: a scan has just returned one of two stored chunks, and the
\* chunk it returned was inserted too late to be before now - chunk_ttl.
C27_Witness ==
    /\ expiredRes.op = "list_expired"
    /\ Cardinality(LiveSlots(slots)) = 2
    /\ Cardinality(expiredRes.ids) = 1
    /\ \A id \in expiredRes.ids :
          /\ id \in DOMAIN index /\ slots[index[id]].some
          /\ chunkArgs[slots[index[id]].call].inserted_at >= expiredRes.now - chunk_ttl

(***************************************************************************)
(* FecEngine: claims                                                        *)
(***************************************************************************)
EqualLength(packets) == \A i, j \in DOMAIN packets : Len(packets[i]) = Len(packets[j])

DataPresent(group) == {i \in DOMAIN group.data_packets : group.data_packets[i].some}

ParityIndices(group) == {group.parity_packets[i].index : i \in DOMAIN group.parity_packets}

\* Every parity packet of the group's list arrived once.
NoDuplicateParity(group) == Cardinality(ParityIndices(group)) = Len(group.parity_packets)

\* C3: k equal-length data packets and the m parity packets of encode; any m
\* of the k+m are dropped and the survivors delivered with add_packet /
\* add_parity: decode returns every dropped data packet with its original
\* bytes.
C3_RecoversDropped ==
    LET group == active_groups.group IN
    (/\ active_groups.exists /\ decodeRes.done
     /\ EqualLength(sentData)
     /\ NoDuplicateParity(group)
     /\ Cardinality(DataPresent(group)) + Len(group.parity_packets) = group.expected_data_count)
    => \A i \in DOMAIN group.data_packets \ DataPresent(group) :
          decodeRes.ok /\ decodeRes.recovered[i] = SomePacket(sentData[i])

\* The group's parity packets delivered in index order instead.
InIndexOrder(group) ==
    [group EXCEPT !.parity_packets =
        SelectSeq(sentParity, LAMBDA p : p.index \in ParityIndices(group))]

\* C7: for a fixed set of data and parity packets of a group, the outcome of
\* recovery (success or failure, recovered bytes) is the same for every
\* delivery order: the order taken gives what delivery in index order gives.
C7_OrderIndependent ==
    (active_groups.exists /\ decodeRes.done /\ NoDuplicateParity(active_groups.group))
    => decodeRes = Decode(InIndexOrder(active_groups.group))

\* C8: once a group has been recovered and retired, later packets with its
\* group id are discarded: no group state exists for it again.
C8_LatePacketsDiscarded == retired => ~active_groups.exists

\* C9: whenever received_count >= k (can_recover), decode of the group
\* succeeds.
C9_CanRecoverImpliesDecodable ==
    (active_groups.exists /\ decodeRes.done /\ CanRecover(active_groups.group))
    => decodeRes.ok

\* bytes is the original followed by zeros only, and no longer than max_len.
PaddedOriginal(bytes, original, max_len) ==
    /\ Len(original) <= Len(bytes)
    /\ Len(bytes) <= max_len
    /\ bytes = Resize(original, Len(bytes))

\* C34: data packets of any lengths; all parity packets arrived, in index
\* order, and at most m data packets were lost: decode returns each lost
\* packet's complete original bytes, possibly zero-padded up to the batch's
\* max_len.
C34_MixedLengthsRecovered ==
    LET group == active_groups.group IN
    (/\ active_groups.exists /\ decodeRes.done
     /\ group.parity_packets = sentParity
     /\ Cardinality(DataPresent(group)) + Len(sentParity) >= group.expected_data_count)
    => /\ decodeRes.ok
       /\ \A i \in DOMAIN group.data_packets \ DataPresent(group) :
             /\ decodeRes.recovered[i].some
             /\ PaddedOriginal(decodeRes.recovered[i].data, sentData[i], MaxLen(sentData))

\* C28: a step delivering a packet to the group keeps every packet already
\* stored (data slots and the parity list as it stood), adds no parity packet
\* whose index the group already stores, and changes received_count only when
\* it stores a packet of a new index.
C28_DuplicateIgnored ==
    [][(fecPhase = "open" /\ active_groups'.exists) =>
          LET old == GroupEntry
              new == active_groups'.group
              oldLen == Len(old.parity_packets)
          IN  /\ \A i \in DOMAIN old.data_packets :
                    old.data_packets[i].some => new.data_packets[i] = old.data_packets[i]
              /\ Len(new.parity_packets) >= oldLen
              /\ SubSeq(new.parity_packets, 1, oldLen) = old.parity_packets
              /\ \A j \in (oldLen + 1)..Len(new.parity_packets) :
                    new.parity_packets[j].index \notin ParityIndices(old)
              /\ (DataPresent(new) = DataPresent(old) /\ ParityIndices(new) = ParityIndices(old))
                    => new.received_count = old.received_count]_vars

(***************************************************************************)
(* SignatureVerifier: claims                                                *)
(***************************************************************************)
\* C4: once revoke_key(p) has returned, every verify of a chunk from p that
\* is called afterwards returns Ok(false), whatever its signature and whatever
\* calls (add_trusted_key for p included) ran in between.
C4_RevokedStaysRejected ==
    (vres.done /\ vres.afterRevoke) => vres.result = "false"

\* C4 happens: a verify called after revoke_key(p) returned has completed
\* while p's key is trusted again and the chunk's signature is valid under it.
C4_Witness ==
    /\ vres.done /\ vres.afterRevoke
    /\ vres.result = "false"
    /\ trusted_keys[vres.peer] = SomeKey(1)
    /\ vres.signature = 1

(***************************************************************************)
(* P2PEngine: claims                                                        *)
(***************************************************************************)
\* C10: a handle_chunk_request of peer p returns Ok exactly when p is in the
\* unchoke set that was published when the request took hold of the set (its
\* read guard); otherwise it fails with the choked-peer error.
C10_AcceptedIffUnchoked ==
    reqRes.done => (reqRes.ok <=> reqRes.peer \in Range(reqRes.published))

\* C10 happens: a request of an unchoked peer was accepted while an
\* update_unchoke_set that chokes the peer was waiting to publish its set.
C10_Witness ==
    /\ reqRes.done /\ reqRes.ok
    /\ reqRes.peer \in Range(reqRes.published)
    /\ \E u \in Threads : /\ ppc[u] = "u_publish"
                          /\ reqRes.peer \notin Range(plocal[u].unchoke_set)

\* C35: every member of the published unchoke set is a currently known
\* peer (one with an entry in peer_stats): a removed peer is in no published
\* set, so it is neither admitted nor returned nor allocated bandwidth.
C35_UnchokedAreKnown == Range(unchoked_peers) \subseteq KnownPeers

\* C14: revoke_key(p) is atomic for a concurrent verify of a chunk from p:
\* a verify that saw p not revoked while p's key was trusted (the state
\* before the revocation) also finds that key; it never sees p as not
\* revoked and its key as gone.
C14_RevokeAtomicForVerify ==
    (vres.done /\ ~vres.sawRevoked /\ vres.keyAtCheck) => vres.keyFound

C37_TotalIsSuccessPlusFailed ==
    (\A t \in Threads : vpc[t] # "v_revoked" /\ vpc[t] # "v_key" /\ vpc[t] # "v_sig")
        => verifications_total = verifications_success + verifications_failed

(***************************************************************************)
(* Cache: claims                                                            *)
(***************************************************************************)
\* The sum of the sizes of the shards a cache holds.
RECURSIVE HeldBytes(_)
HeldBytes(cache) ==
    IF cache = << >> THEN 0 ELSE Head(cache).size + HeldBytes(Tail(cache))

\* C40: after any sequence of put_shard, get_shard and clear_shards calls
\* cache_size_bytes equals the sum of the sizes of the shards the cache
\* holds.
C40_SizeIsSumOfShards == cacheStats.cache_size_bytes = HeldBytes(shard_cache)

(***************************************************************************)
(* Metering: claims                                                         *)
(***************************************************************************)
\* The error of the resource an operation meters.
OverrunError(op) ==
    CASE op = "add_memory" -> "MemoryLimitExceeded"
      [] op = "add_cycles" -> "CpuLimitExceeded"
      [] op = "check_time" -> "TimeLimitExceeded"

\* C16: an add_memory, add_cycles or check_time that finds the usage above
\* its cap sets the interrupt flag and returns the error of that resource;
\* one that finds no overrun returns success and leaves the flag as it was
\* (unset, unless it was set before the call).
C16_OverrunSetsFlag ==
    mres.op \in {"add_memory", "add_cycles", "check_time"} =>
        IF mres.used > mres.limit
        THEN mres.flagAfter /\ mres.result = OverrunError(mres.op)
        ELSE mres.result = "Ok" /\ mres.flagAfter = mres.flagBefore

\* C16 happens: an add_memory on a meter that was not interrupted took the
\* usage above max_memory_bytes.
C16_Witness ==
    /\ mres.op = "add_memory"
    /\ mres.used > mres.limit
    /\ ~mres.flagBefore /\ mres.flagAfter /\ interrupted
    /\ mres.result = "MemoryLimitExceeded"

\* C17: once the interrupt flag is set, every metered operation called
\* before the next start returns Interrupted.
C17_InterruptedUntilRestart ==
    (mres.op \in {"add_memory", "add_cycles", "check_time", "check_all"}
        /\ mres.flagBefore) => mres.result = "Interrupted"

\* C38: an add_memory or add_cycles that returns its limit-exceeded error
\* leaves the recorded usage as it was before the call, and the recorded
\* memory and cycle usage never exceed max_memory_bytes and max_cpu_cycles.
C38_RejectedCallChargesNothing ==
    [][/\ (mres' # mres /\ mres'.op \in {"add_memory", "add_cycles"}
              /\ mres'.result = OverrunError(mres'.op))
           => (memory_bytes' = memory_bytes /\ cpu_cycles' = cpu_cycles)
       /\ memory_bytes' <= limits'.max_memory_bytes
       /\ cpu_cycles' <= limits'.max_cpu_cycles]_vars

\* C39: under any interleaving of concurrent add_memory and free_memory
\* calls the memory counter never wraps below zero: the bytes subtracted
\* from it never exceed the bytes added to it.
C39_NeverWrapsBelowZero == memory_bytes >= 0

(***************************************************************************)
(* ComputeEngine: claims                                                    *)
(***************************************************************************)
\* The steps of the task state machine.
LifecycleSteps ==
    {<<"Pending", "Assigned">>, <<"Assigned", "Computing">>,
     <<"Computing", "Verifying">>}
        \cup {<<"Verifying", s>> : s \in TerminalStatuses}

C19_OneInSandbox ==
    /\ Cardinality({t \in Threads : epc[t] = "execute"}) <= 1
    /\ \A t \in Threads : epc[t] = "execute" => sandboxLock = t

\* C19 happens: a process_task is executing inside the sandbox while a
\* split_data or merge_results call waits for the lock.
C19_Witness ==
    \E t, u \in Threads :
        /\ epc[t] = "execute" /\ ecall[t].op = "process_task"
        /\ epc[u] = "lock" /\ ecall[u].op \in {"split_data", "merge_results"}

(***************************************************************************)
(* MerkleTree: claims                                                       *)
(***************************************************************************)
\* C20: for a tree built from a non-empty list of leaves, whatever their
\* number, verify_proof(root, leaf_i, i, get_proof(i)) is true for every
\* leaf index i.
C20_ProofVerifies ==
    /\ (proofRes.done /\ proofRes.leaf_index < Len(merkleChunks)) => proofRes.ok
    /\ proofRes.checked => proofRes.verified

\* C20 happens: the proof of the last leaf of a tree of five leaves (an odd
\* count, padded at two levels) was verified.
C20_Witness ==
    /\ Len(merkleChunks) = 5
    /\ proofRes.checked /\ proofRes.verified
    /\ proofRes.leaf_index = 4
    /\ Len(proofRes.proof) = 3

(***************************************************************************)
(* WasmSandbox: claims                                                      *)
(***************************************************************************)
\* C21: merging the output of split returns exactly the input X, for every
\* input byte string X.
C21_MergeSplitIdentity ==
    sbMerged.done => (sbMerged.ok /\ sbMerged.bytes = sbData)

\* The module begins with the magic 00 61 73 6D and the version 01 00 00 00.
HasWasmHeader(bytes) ==
    Len(bytes) >= 8 /\ SubSeq(bytes, 1, 8) = <<0, 97, 115, 109, 1, 0, 0, 0>>

\* C30: load_module and execute accept a module only if it begins with the
\* WASM magic and version 1; a rejected module leaves the module cache
\* unchanged.
C30_OnlyWasmAccepted ==
    sbLast.call # "none" =>
        /\ sbLast.ok => HasWasmHeader(sbLast.module)
        /\ ~sbLast.ok => sbLast.cacheAfter = sbLast.cacheBefore

\* C11: every unchoke set update_unchoke_set calculates or publishes has at
\* most regular_unchoke_count + optimistic_unchoke_count members, whatever
\* the number of known peers.
C11_UnchokeSetSize ==
    LET limit == p2pConfig.regular_unchoke_count + p2pConfig.optimistic_unchoke_count
    IN  /\ Len(unchoked_peers) <= limit
        /\ \A t \in Threads : Len(plocal[t].unchoke_set) <= limit

\* C11 happens: with more known peers than R + O, a set of exactly R + O
\* members (R regular and the optimistic one) has been published.
C11_Witness ==
    /\ p2pConfig.regular_unchoke_count >= 1
    /\ p2pConfig.optimistic_unchoke_count >= 1
    /\ Cardinality(KnownPeers) >
           p2pConfig.regular_unchoke_count + p2pConfig.optimistic_unchoke_count
    /\ Len(unchoked_peers) =
           p2pConfig.regular_unchoke_count + p2pConfig.optimistic_unchoke_count

\* C13: a get_unchoked_peers or get_bandwidth_allocation that runs while
\* update_unchoke_set publishes returns one complete published set (the one
\* in place when it returns, which no publication replaced while it read),
\* never a mix of two sets; the allocation divides by that set's size.
C13_AtomicSwap ==
    readRes.done =>
        /\ readRes.observed = readRes.published
        /\ readRes.call = "get_bandwidth_allocation" =>
               readRes.bytes_per_peer =
                   (MaxUploadMbps * 1000000)
                       \div (IF readRes.published = << >> THEN 1 ELSE Len(readRes.published))

\* C13 happens: a reader returned a set of two peers while an
\* update_unchoke_set with another set was waiting to publish.
C13_Witness ==
    /\ readRes.done
    /\ Len(readRes.observed) = 2
    /\ \E u \in Threads : /\ ppc[u] = "u_publish"
                          /\ plocal[u].unchoke_set # readRes.observed

\* set starts with a regular slice of r peers: known peers in descending
\* order of their score, none of them outscored by a peer left out of it.
StartsWithRegularSlice(set, r) ==
    /\ Len(set) >= r
    /\ \A i \in 1..r : set[i] \in KnownPeers
    /\ \A i, j \in 1..r : i < j => (set[i] # set[j] /\ Score(set[i]) >= Score(set[j]))
    /\ \A i \in 1..r : \A q \in KnownPeers \ {set[k] : k \in 1..r} : Score(set[i]) >= Score(q)

\* C36: the unchoke set update_unchoke_set has calculated never contains a
\* peer twice: it is the regular slice of min(R, n) peers, followed by one
\* optimistic member that is a known peer outside that slice; when no peer is
\* left outside the slice or optimistic_unchoke_count is 0, it is exactly the
\* regular slice.
C36_NoPeerTwice ==
    \A t \in Threads :
        ppc[t] = "u_publish" =>
            LET set == plocal[t].unchoke_set
                r == Min(p2pConfig.regular_unchoke_count, Cardinality(KnownPeers))
            IN  /\ Distinct(set)
                /\ StartsWithRegularSlice(set, r)
                /\ Len(set) <= r + 1
                /\ Len(set) = r + 1 =>
                      set[r + 1] \in KnownPeers \ {set[k] : k \in 1..r}
                /\ (Cardinality(KnownPeers) <= r \/ p2pConfig.optimistic_unchoke_count = 0)
                      => Len(set) = r

\* C36 witness: a calculated set of one regular member and an optimistic
\* one, drawn from two peers outside the regular slice.
C36_Witness ==
    \E t \in Threads :
        /\ ppc[t] = "u_publish"
        /\ p2pConfig.regular_unchoke_count = 1
        /\ Cardinality(KnownPeers) = 3
        /\ Len(plocal[t].unchoke_set) = 2

\* The score of the claim, (0.7 downloaded + 0.3 uploaded) reliability, in
\* tenths and without rounding.
ExactScore(p) ==
    (7 * peer_stats[p].downloaded_bytes + 3 * peer_stats[p].uploaded_bytes)
        * peer_stats[p].reliability_score

\* p is one of the R peers with the highest score, whatever the order among
\* peers of equal score: fewer than R other peers score as much as p.
InTopRegular(p) ==
    Cardinality({q \in KnownPeers \ {p} : ExactScore(q) >= ExactScore(p)})
        < p2pConfig.regular_unchoke_count

\* C12: when at least R peers are known, every one of the R peers with the
\* highest score is in the unchoke set update_unchoke_set has calculated.
C12_TopRegularUnchoked ==
    \A t \in Threads :
        (ppc[t] = "u_publish" /\ Cardinality(KnownPeers) >= p2pConfig.regular_unchoke_count)
            => \A p \in KnownPeers :
                   InTopRegular(p) => p \in Range(plocal[t].unchoke_set)

(***************************************************************************)
(* CesPipeline: claims                                                      *)
(***************************************************************************)
AllPresented ==
    /\ Len(cesPresented) = Len(cesShards.shards)
    /\ \A i \in DOMAIN cesPresented : cesPresented[i] = SomeShard(cesShards.shards[i])

\* C5: for every input X and every configuration, reconstruct applied to all
\* the shards process(X) returned, with the same key, returns exactly X.
C5_RoundTrip ==
    (cesOutput.done /\ AllPresented) => (cesOutput.ok /\ cesOutput.bytes = cesInput)

\* The shards presented to reconstruct: the others are marked missing.
PresentShards == {i \in DOMAIN cesPresented : cesPresented[i].some}

\* C25: reconstruct returns X from every subset of at least k of the k+m
\* shards of process(X), the others marked missing, and an error from fewer
\* than k shards.
C25_LossTolerance ==
    cesOutput.done =>
        IF Cardinality(PresentShards) >= cesConfig.shard_count
        THEN cesOutput.ok /\ cesOutput.bytes = cesInput
        ELSE ~cesOutput.ok

(***************************************************************************)
(* DcdnConfig: claims                                                       *)
(***************************************************************************)
\* The constraints of the configuration surface.
MeetsConstraints(c) ==
    /\ c.storage.ring_buffer_size_mb > 0
    /\ c.storage.chunk_ttl_seconds > 0
    /\ c.fec.default_block_size > 0
    /\ c.fec.default_parity_count >= 1
    /\ c.fec.default_parity_count < c.fec.default_block_size
    /\ c.p2p.max_upload_mbps > 0
    /\ c.p2p.max_download_mbps > 0
    /\ c.p2p.unchoke_interval_seconds > 0
    /\ c.p2p.regular_unchoke_count > 0
    /\ c.quic.max_concurrent_connections > 0
    /\ c.quic.max_streams_per_connection > 0
    /\ c.quic.idle_timeout_ms >= MinIdleTimeoutMs

\* C29: validate returns Ok exactly for the configurations that meet every
\* constraint: it rejects each configuration violating one of them and
\* accepts each configuration satisfying all.
C29_ValidateMatchesConstraints ==
    validateRes.done => (validateRes.ok <=> MeetsConstraints(dcdnConfig))

(***************************************************************************)
(* ComputeExecutor: claims                                                  *)
(***************************************************************************)

\* n records, each a u32 length and that many bytes, and nothing else.
RECURSIVE IsRecords(_, _)
IsRecords(bytes, n) ==
    IF n = 0 THEN bytes = << >>
    ELSE /\ Len(bytes) >= 4
         /\ LET len == U32FromLeBytes(SubSeq(bytes, 1, 4))
            IN  /\ Len(bytes) >= 4 + len
                /\ IsRecords(SubSeq(bytes, 5 + len, Len(bytes)), n - 1)

\* The frame format: u32 num_chunks, then num_chunks records.
WellFormedFrame(bytes) ==
    /\ Len(bytes) >= 4
    /\ IsRecords(SubSeq(bytes, 5, Len(bytes)), U32FromLeBytes(SubSeq(bytes, 1, 4)))

\* C22: the frame codec round-trips in both directions: a chunk list that is
\* serialized and then deserialized comes back as it was, and a well-formed
\* frame that is deserialized and then serialized comes back as it was.
C22_FrameRoundTrip ==
    \A i \in 1..Len(exLog) :
        (\/ exLog[i].kind = "chunks"
         \/ exLog[i].kind = "frame" /\ WellFormedFrame(exLog[i].bytes))
            => /\ i + 1 <= Len(exLog) => exLog[i + 1].kind # "error"
               /\ i + 2 <= Len(exLog) => exLog[i + 2] = exLog[i]

\* C22 happens: a well-formed frame of two different chunks was deserialized,
\* serialized again and deserialized again.
C22_Witness ==
    /\ Len(exLog) = 4
    /\ exLog[1].kind = "frame"
    /\ WellFormedFrame(exLog[1].bytes)
    /\ Len(exLog[2].chunks) = 2
    /\ exLog[2].chunks[1] # exLog[2].chunks[2]
    /\ exLog[2].chunks[2] # << >>

\* clamp of the claim, for min_chunk <= max_chunk.
Clamp(value, lo, hi) == IF value < lo THEN lo ELSE IF value > hi THEN hi ELSE value

\* C24: for every input and every (min_chunk_size, max_chunk_size), split_data
\* uses chunk_size = clamp(input_len / 8, min_chunk, max_chunk), at least 1,
\* and returns chunks numbered 0..n-1 whose concatenation is the input.
C24_SplitClampsAndConcatenates ==
    exSplit.done =>
        /\ ~exSplit.panicked
        /\ exSplit.chunk_size =
              Max(1, Clamp(Len(exData) \div 8, exJob.min_chunk_size, exJob.max_chunk_size))
        /\ Len(exSplit.infos) = Len(exSplit.chunks)
        /\ \A i \in 1..Len(exSplit.infos) : exSplit.infos[i].index = i - 1
        /\ Concat(exSplit.chunks) = exData

(***************************************************************************)
(* ResultVerifier: claims                                                   *)
(***************************************************************************)

\* C23: in Hash mode verify reports a result valid only if an expected hash
\* was supplied and the SHA-256 of the result data equals it.
C23_ValidOnlyIfHashMatches ==
    (rvRes.done /\ rvMode = "Hash" /\ rvRes.verdict = "Valid")
        => /\ rvRes.expected_hash.some
           /\ HashResult(rvRes.result.result_data) = rvRes.expected_hash.value

====
